---- MODULE Spec2Model ----
\* Model of the repair-and-merge engine
\* (News Pipeline/Script Merge/data_script_merge_batch_plus_monthly.py).
\*
\* Text is modelled by its structure.  A cell of a DataFrame is a record
\*   [k, d, m, y, p, d2, m2, y2, p2]
\* where k names the shape of the string and the other fields carry the
\* numbers that occur in it:
\*   "nan"     pandas NaN (an empty CSV field)
\*   "empty"   the empty string ''
\*   "nanstr"  the string 'nan' (str() of a NaN)
\*   "txt"     an opaque text without digits, d = its identity
\*   "DMY"     "5 January 2021"     (p: day written with a leading zero)
\*   "DM"      "5 January"
\*   "MD"      "January 5"
\*   "DMW"     "5 January, Monday"  (what the collector emits without a year)
\*   "WDM"     "Monday, 5 January"
\*   "M"       "January"
\*   "WR2"     "27 Dec, 2020 - 2 Jan, 2021"   (year on both sides)
\*   "WRX"     "28 Sep - 4 Oct, 2020"         (two months, year at the end)
\*   "WRS"     "5 - 11 Oct, 2020"             (one month)
\*   "name"    a column name of a header line, d = its identity:
\*             1..10 the canonical names, 0 the empty name, above 10 others
\* A month m = 0 stands for a word that is not a month name ("Foo").
EXTENDS Integers, Sequences, FiniteSets, TLC

VARIABLES r_orig, r_df, r_pass, r_first, r_detected,
          c_orig, c_df, c_pass, c_first, c_log,
          n_lines, n_i, n_fixed, n_state,
          pc, abort_at, main_files, monthly, outdir, main_csv_path, queue,
          merged_df, latest_monthly_csv, processed, written, summary,
          h_before, h_batch, h_base_rows, h_inc_rows, h_base_broken, h_outdir,
          h_passes,
          s_file, s_before, s_events, s_ret, s_run,
          l_table, l_csv, l_pending, l_state, l_run, l_before, l_last, l_first_csv,
          l_failed

repair_vars == <<r_orig, r_df, r_pass, r_first, r_detected>>
corr_vars == <<c_orig, c_df, c_pass, c_first, c_log>>

norm_vars == <<n_lines, n_i, n_fixed, n_state>>

fs_vars == <<main_files, monthly>>
hist_vars == <<h_before, h_batch, h_base_rows, h_inc_rows, h_base_broken, h_outdir,
               h_passes>>
pipe_vars == <<pc, abort_at, fs_vars, outdir, main_csv_path, queue, merged_df,
               latest_monthly_csv, processed, written, summary, hist_vars>>

\* the collector's save_events and the loader's import_csv_data
coll_vars == <<s_file, s_before, s_events, s_ret, s_run>>
load_vars == <<l_table, l_csv, l_pending, l_state, l_run, l_before, l_last, l_first_csv,
               l_failed>>

vars == <<repair_vars, corr_vars, norm_vars, pipe_vars, coll_vars, load_vars>>

\* ------------------------------------------------------------------ bounds
MaxRows == 2
\* rows of the long batches, longer than the window of fix_broken_date
LongLen == 23
\* rows of the long Datasets of the corrector, more than its examples per year
CorrLongLen == 6
\* rows of the long files of the loader, more than one chunk of its inserts
LoadLongLen == 52

\* ------------------------------------------------------------ program constants
EXPECTED_COLUMNS == <<"Date", "Time", "Currency", "Event", "Impact", "Actual",
                      "Forecast", "Previous", "IsHoliday", "WeekRange">>
expected_cols == Len(EXPECTED_COLUMNS)
search_range == 20
fallback_year == 2024
NanLimit == 3
chunk_size == 50

\* ------------------------------------------------------------------ calendar
\* datetime / pd.Timedelta arithmetic, proleptic Gregorian, counted from
\* 1 January 2000 (a Saturday, weekday() = 5); dates of the years after 2000
\* are handled
Epoch == [y |-> 2000, wd |-> 5]
EpochYear == Epoch.y

IsLeap(y) == (y % 4 = 0 /\ y % 100 # 0) \/ y % 400 = 0

DaysInMonth(y, m) ==
    IF m \in {4, 6, 9, 11} THEN 30
    ELSE IF m = 2 THEN (IF IsLeap(y) THEN 29 ELSE 28)
    ELSE 31

DaysInYear(y) == IF IsLeap(y) THEN 366 ELSE 365

ValidDate(d, m, y) == m \in 1..12 /\ y > EpochYear /\ d >= 1 /\ d <= DaysInMonth(y, m)

RECURSIVE DaysBeforeYear(_)
DaysBeforeYear(y) == IF y <= EpochYear THEN 0 ELSE DaysBeforeYear(y - 1) + DaysInYear(y - 1)

RECURSIVE DaysBeforeMonth(_, _)
DaysBeforeMonth(y, m) == IF m <= 1 THEN 0 ELSE DaysBeforeMonth(y, m - 1) + DaysInMonth(y, m - 1)

Ordinal(d, m, y) == DaysBeforeYear(y) + DaysBeforeMonth(y, m) + (d - 1)

RECURSIVE YearOfOrdinal(_, _)
YearOfOrdinal(n, y) == IF n < DaysInYear(y) THEN y ELSE YearOfOrdinal(n - DaysInYear(y), y + 1)

RECURSIVE MonthOfDayOfYear(_, _, _)
MonthOfDayOfYear(n, y, m) ==
    IF n < DaysInMonth(y, m) THEN m ELSE MonthOfDayOfYear(n - DaysInMonth(y, m), y, m + 1)

FromOrdinal(n) ==
    LET y  == YearOfOrdinal(n, EpochYear)
        ny == n - DaysBeforeYear(y)
        m  == MonthOfDayOfYear(ny, y, 1)
    IN  [d |-> ny - DaysBeforeMonth(y, m) + 1, m |-> m, y |-> y]

\* datetime.weekday(): Monday = 0; 1 January 2000 was a Saturday
weekday(d, m, y) == (Ordinal(d, m, y) + Epoch.wd) % 7

\* --------------------------------------------------------------------- cells
Cell(k, d, m, y, p, d2, m2, y2, p2) ==
    [k |-> k, d |-> d, m |-> m, y |-> y, p |-> p /\ d < 10,
     d2 |-> d2, m2 |-> m2, y2 |-> y2, p2 |-> p2 /\ d2 < 10]

NaN     == Cell("nan", 0, 0, 0, FALSE, 0, 0, 0, FALSE)
Empty   == Cell("empty", 0, 0, 0, FALSE, 0, 0, 0, FALSE)
NanStr  == Cell("nanstr", 0, 0, 0, FALSE, 0, 0, 0, FALSE)
Txt(i)  == Cell("txt", i, 0, 0, FALSE, 0, 0, 0, FALSE)
DMY(d, m, y)    == Cell("DMY", d, m, y, FALSE, 0, 0, 0, FALSE)
DMYp(d, m, y)   == Cell("DMY", d, m, y, TRUE, 0, 0, 0, FALSE)
DM(d, m)        == Cell("DM", d, m, 0, FALSE, 0, 0, 0, FALSE)
MD(d, m)        == Cell("MD", d, m, 0, FALSE, 0, 0, 0, FALSE)
DMW(d, m)       == Cell("DMW", d, m, 0, FALSE, 0, 0, 0, FALSE)
WDM(d, m)       == Cell("WDM", d, m, 0, FALSE, 0, 0, 0, FALSE)
MonthOnly(m)    == Cell("M", 0, m, 0, FALSE, 0, 0, 0, FALSE)
WR2(d, m, y, d2, m2, y2) == Cell("WR2", d, m, y, FALSE, d2, m2, y2, FALSE)
WRX(d, m, d2, m2, y2, p, p2) == Cell("WRX", d, m, 0, p, d2, m2, y2, p2)
WRS(d, d2, m2, y2) == Cell("WRS", d, 0, 0, FALSE, d2, m2, y2, FALSE)
Name(i) == Cell("name", i, 0, 0, FALSE, 0, 0, 0, FALSE)
\* a time of day "14:30" (kind "HM", d = hour, m = minute), and the text "All Day"
HM(h, mi) == Cell("HM", h, mi, 0, FALSE, 0, 0, 0, FALSE)
AllDay == Cell("allday", 0, 0, 0, FALSE, 0, 0, 0, FALSE)

\* str(x).strip(): a NaN prints as 'nan'; the modelled strings carry no outer blanks
StrStrip(c) == IF c.k = "nan" THEN NanStr ELSE c

\* pd.isna(x)
isna(c) == c.k = "nan"

\* re.search(r'\b\d{4}\b', s): the shapes that carry a 4-digit token
HasYearToken(c) == c.k \in {"DMY", "WR2", "WRX", "WRS"}

\* re.search(r'\b(\d{4})\b', s).group(1): the first 4-digit token of the string
FirstYearToken(c) == IF c.k \in {"DMY", "WR2"} THEN c.y ELSE c.y2

\* the four broken_patterns of is_broken_date, anchored ^...$:
\*   "5 January, Monday" | "Monday, 5 January" | "5 January" | "January 5"
MatchesBrokenPattern(c) ==
    \/ c.k = "DMW"
    \/ c.k = "WDM"
    \/ c.k = "DM"
    \/ c.k = "MD"

is_broken_date(c) ==
    IF isna(c) \/ c.k = "empty" THEN TRUE
    ELSE IF MatchesBrokenPattern(c) THEN TRUE
    ELSE IF ~HasYearToken(c) THEN TRUE
    ELSE FALSE

\* extract_month_day_from_broken_date: weekday names are removed, then
\* "(\d{1,2})\s+(\w+)" or "(\w+)\s+(\d{1,2})" is searched; None when neither
\* is found.  The result is the string "day Month" (shape DM).
HasMonthDay(c) == c.k \in {"DM", "MD", "DMW", "WDM", "DMY"}

extract_month_day_from_broken_date(c) == Cell("DM", c.d, c.m, 0, c.p, 0, 0, 0, FALSE)

\* ----------------------------------------------------------- text of a line
\* A line of a file is the sequence of its pieces between commas.  A piece is
\* [c, q]: c the cell the piece spells (or starts to spell), q its quoting:
\*   "n" a whole unquoted field,
\*   "o" the piece that opens a quoted field (as in  "5 - 11 Oct ),
\*   "m" a piece inside a quoted field, "c" the piece that closes it.
\* The empty line is the empty sequence.
Piece(c, q) == [c |-> c, q |-> q]
Plain(c) == Piece(c, "n")

\* line.count(',')
comma_count(line) == Len(line) - 1

\* line.split(','): the list of the one-piece texts
split_commas(line) == [i \in 1..Len(line) |-> <<line[i]>>]

\* ','.join(parts): the pieces of all parts, in order
RECURSIVE join_commas(_)
join_commas(parts) ==
    IF parts = <<>> THEN <<>> ELSE Head(parts) \o join_commas(Tail(parts))

\* ',' + ','.join([''] * missing_cols): missing_cols more empty pieces
RECURSIVE EmptyPieces(_)
EmptyPieces(n) == IF n <= 0 THEN <<>> ELSE <<Plain(NaN)>> \o EmptyPieces(n - 1)

\* the fields the delimited-record reader sees in a line: a quoted field runs
\* from its opening piece to its closing piece
RECURSIVE csv_fields(_)
csv_fields(line) ==
    IF line = <<>> THEN <<>>
    ELSE IF Head(line).q \in {"m", "c"} THEN csv_fields(Tail(line))
    ELSE <<Head(line).c>> \o csv_fields(Tail(line))

\* ----------------------------------------------------------- fix_csv_structure
IsBlank(line) == line = <<>>

estimated_cols(line) == comma_count(line) + 1

\* lines 311-318 with the surplus pieces dropped instead of merged
merge_surplus_truncating(line) == SubSeq(line, 1, expected_cols)

\* lines 311-318: parts[:expected_cols-1] and the rest joined by ',' as the
\* last part, all joined by ','
merge_surplus(line) ==
    LET parts       == split_commas(line)
        fixed_parts == SubSeq(parts, 1, expected_cols - 1)
        merged_last == join_commas(SubSeq(parts, expected_cols, Len(parts)))
    IN  IF Len(parts) > expected_cols
        THEN join_commas(Append(fixed_parts, merged_last))
        ELSE line

\* lines 296-297 and 304-305 padding one field too few
pad_missing_one_short(line) ==
    line \o EmptyPieces(expected_cols - estimated_cols(line) - 1)

\* lines 296-297 and 304-305
pad_missing(line) == line \o EmptyPieces(expected_cols - estimated_cols(line))

\* one iteration of the loop over the lines (i counts from 0): the lines it
\* appends to fixed_lines
FixLine(i, line) ==
    IF IsBlank(line) THEN <<>>
    ELSE IF i = 0
         THEN IF estimated_cols(line) < expected_cols THEN <<pad_missing(line)>> ELSE <<line>>
    ELSE IF estimated_cols(line) < expected_cols THEN <<pad_missing(line)>>
    ELSE IF estimated_cols(line) > expected_cols THEN <<merge_surplus(line)>>
    ELSE <<line>>

RECURSIVE FixedLinesFrom(_, _)
FixedLinesFrom(lines, i) ==
    IF i >= Len(lines) THEN <<>>
    ELSE FixLine(i, lines[i + 1]) \o FixedLinesFrom(lines, i + 1)

fixed_lines(lines) == FixedLinesFrom(lines, 0)

\* ----------------------------------------------------------------- DataFrame
\* [cols: column names, idx: row labels, rows: the rows, each a tuple of cells]
Frame(cols, idx, rows) == [cols |-> cols, idx |-> idx, rows |-> rows]

RangeIndex(n) == [i \in 1..n |-> i - 1]

HasCol(df, name) == \E i \in 1..Len(df.cols) : df.cols[i] = name

ColPos(df, name) == CHOOSE i \in 1..Len(df.cols) : df.cols[i] = name

HasLabel(df, l) == \E i \in 1..Len(df.idx) : df.idx[i] = l

LabelPos(df, l) == CHOOSE i \in 1..Len(df.idx) : df.idx[i] = l

\* df.loc[idx] = v: the value written over the whole row
SetCell_whole_row(df, pos, col, v) ==
    [df EXCEPT !.rows = [df.rows EXCEPT ![pos] = [i \in 1..Len(df.rows[pos]) |-> v]]]

\* df.loc[idx, column] = v and df.at[idx, column] = v
SetCell(df, pos, col, v) ==
    [df EXCEPT !.rows = [df.rows EXCEPT ![pos] = [df.rows[pos] EXCEPT ![col] = v]]]

Max2(a, b) == IF a >= b THEN a ELSE b
Min2(a, b) == IF a <= b THEN a ELSE b

\* ------------------------------------------------------------ fix_broken_date
\* the scan ended at the broken row (break for continue)
RECURSIVE NearbyYears_stop_at_broken(_, _, _, _)
NearbyYears_stop_at_broken(df, i, end_idx, broken_idx) ==
    IF i >= end_idx \/ i = broken_idx THEN <<>>
    ELSE LET c == StrStrip(df.rows[LabelPos(df, i)][ColPos(df, "Date")])
         IN  (IF HasYearToken(c) THEN <<FirstYearToken(c)>> ELSE <<>>)
             \o NearbyYears_stop_at_broken(df, i + 1, end_idx, broken_idx)

\* nearby_years: the years of the rows labelled start_idx .. end_idx-1, the
\* broken row left out, in scan order
RECURSIVE NearbyYears(_, _, _, _)
NearbyYears(df, i, end_idx, broken_idx) ==
    IF i >= end_idx THEN <<>>
    ELSE IF i = broken_idx THEN NearbyYears(df, i + 1, end_idx, broken_idx)
    ELSE LET c == StrStrip(df.rows[LabelPos(df, i)][ColPos(df, "Date")])
         IN  (IF HasYearToken(c) THEN <<FirstYearToken(c)>> ELSE <<>>)
             \o NearbyYears(df, i + 1, end_idx, broken_idx)

\* list.count
Count(seq, v) == Cardinality({i \in 1..Len(seq) : seq[i] = v})

\* Iteration order of a CPython set of small ints: by slot (hash & 7) of the
\* 8-slot table; the years of the model occupy distinct slots.
SetIterRank(y) == y % 8

\* max(set(nearby_years), key=nearby_years.count): the first year, in set
\* iteration order, whose count is maximal
most_common_year(years) ==
    LET S    == {years[i] : i \in 1..Len(years)}
        best == {y \in S : \A z \in S : Count(years, z) <= Count(years, y)}
    IN  CHOOSE y \in best : \A z \in best : SetIterRank(y) <= SetIterRank(z)

\* df.loc[i, 'Date'] raises KeyError for a label i that is not in the index
WindowLabelsPresent(df, broken_idx) ==
    \A i \in Max2(0, broken_idx - search_range) ..
             (Min2(Len(df.rows), broken_idx + search_range + 1) - 1) : HasLabel(df, i)

fix_broken_date(df, broken_idx) ==
    LET broken_date == StrStrip(df.rows[LabelPos(df, broken_idx)][ColPos(df, "Date")])
        month_day   == extract_month_day_from_broken_date(broken_date)
        start_idx   == Max2(0, broken_idx - search_range)
        end_idx     == Min2(Len(df.rows), broken_idx + search_range + 1)
        years       == NearbyYears(df, start_idx, end_idx, broken_idx)
        year        == IF years # <<>> THEN most_common_year(years) ELSE fallback_year
    IN  IF ~HasMonthDay(broken_date) THEN [ok |-> TRUE, val |-> broken_date]
        ELSE IF ~WindowLabelsPresent(df, broken_idx) THEN [ok |-> FALSE, val |-> broken_date]
        ELSE [ok |-> TRUE,
              val |-> Cell("DMY", month_day.d, month_day.m, year, month_day.p, 0, 0, 0, FALSE)]

\* ------------------------------------------------- generate_weekrange_from_date
\* datetime.strptime with the candidate formats: of the modelled shapes only
\* "D Month YYYY" (day with or without leading zero) parses, as '%d %B %Y'
StrptimeParses(c) == c.k = "DMY" /\ ValidDate(c.d, c.m, c.y)

\* the week written with its year on both sides, "28 Dec, 2020 - 3 Jan, 2021"
generate_weekrange_both_years(date) ==
    LET c          == StrStrip(date)
        n          == Ordinal(c.d, c.m, c.y)
        week_start == FromOrdinal(n - weekday(c.d, c.m, c.y))
        week_end   == FromOrdinal(n - weekday(c.d, c.m, c.y) + 6)
    IN  IF ~StrptimeParses(c) THEN Empty
        ELSE WR2(week_start.d, week_start.m, week_start.y,
                 week_end.d, week_end.m, week_end.y)

generate_weekrange_from_date(date) ==
    LET c          == StrStrip(date)
        n          == Ordinal(c.d, c.m, c.y)
        week_start == FromOrdinal(n - weekday(c.d, c.m, c.y))
        week_end   == FromOrdinal(n - weekday(c.d, c.m, c.y) + 6)
    IN  IF ~StrptimeParses(c) THEN Empty
        ELSE IF week_start.m = week_end.m
             THEN WRS(week_start.d, week_end.d, week_end.m, week_end.y)
             ELSE WRX(week_start.d, week_start.m, week_end.d, week_end.m, week_end.y, TRUE, TRUE)

\* ------------------------------------------------- detect_and_fix_broken_rows
weekrange_col(df) == IF HasCol(df, "WeekRange") THEN ColPos(df, "WeekRange") ELSE Len(df.cols)

BrokenDateIssue(df, pos) ==
    HasCol(df, "Date") /\ is_broken_date(StrStrip(df.rows[pos][ColPos(df, "Date")]))

MissingWeekRangeIssue(df, pos) ==
    LET c == df.rows[pos][weekrange_col(df)] IN isna(c) \/ StrStrip(c).k = "empty"

nan_count(row) == Cardinality({i \in 1..Len(row) : isna(row[i])})

TooManyMissingIssue(df, pos) == nan_count(df.rows[pos]) > NanLimit

\* the detection loop: the issues of every row, taken before any fix
RowIssues(df) ==
    [pos \in 1..Len(df.rows) |->
        [date |-> BrokenDateIssue(df, pos),
         wr   |-> MissingWeekRangeIssue(df, pos),
         nans |-> TooManyMissingIssue(df, pos)]]

IsListed(iss) == iss.date \/ iss.wr \/ iss.nans

broken_rows(df) == {pos \in 1..Len(df.rows) : IsListed(RowIssues(df)[pos])}

\* the fix loop over broken_rows, in row order, each fix seeing the earlier ones
FixDateStep(df, pos) ==
    LET r == fix_broken_date(df, df.idx[pos])
    IN  IF r.ok THEN [ok |-> TRUE, df |-> SetCell(df, pos, ColPos(df, "Date"), r.val)]
        ELSE [ok |-> FALSE, df |-> df]

FixWeekRangeStep(df, pos) ==
    IF ~HasCol(df, "Date") THEN [ok |-> FALSE, df |-> df]
    ELSE [ok |-> TRUE,
          df |-> SetCell(df, pos, weekrange_col(df),
                         generate_weekrange_from_date(df.rows[pos][ColPos(df, "Date")]))]

\* the two fixes in the opposite order: WeekRange generated from the Date
\* as it was before its repair
FixRow_weekrange_first(df, pos, iss) ==
    LET a == IF iss.wr THEN FixWeekRangeStep(df, pos) ELSE [ok |-> TRUE, df |-> df]
    IN  IF ~a.ok THEN a
        ELSE IF iss.date THEN FixDateStep(a.df, pos)
        ELSE a

FixRow(df, pos, iss) ==
    LET a == IF iss.date THEN FixDateStep(df, pos) ELSE [ok |-> TRUE, df |-> df]
    IN  IF ~a.ok THEN a
        ELSE IF iss.wr THEN FixWeekRangeStep(a.df, pos)
        ELSE a

RECURSIVE FixLoop(_, _, _)
FixLoop(df, issues, pos) ==
    IF pos > Len(df.rows) THEN [ok |-> TRUE, df |-> df]
    ELSE IF ~IsListed(issues[pos]) THEN FixLoop(df, issues, pos + 1)
    ELSE LET r == FixRow(df, pos, issues[pos])
         IN  IF r.ok THEN FixLoop(r.df, issues, pos + 1) ELSE r

detect_and_fix_broken_rows(df) == FixLoop(df, RowIssues(df), 1)

\* -------------------------------------------------- fix_december_week_overlap
\* ' - ' in week_range and week_range.split(' - ') has two parts
HasTwoParts(c) == c.k \in {"WR2", "WRX", "WRS"}

\* re.search(r',\s*(\d{4})$', start_part): 0 when the part does not end in ", YYYY"
start_year_of(c) == IF c.k = "WR2" THEN c.y ELSE 0
end_year_of(c) == IF c.k \in {"WR2", "WRX", "WRS"} THEN c.y2 ELSE 0

\* pd.to_datetime(date_str, dayfirst=True, errors='coerce'): NaT (ok = FALSE)
\* for what is no calendar date; a string without a year gets the parser's
\* default year 1, which no WeekRange names, so it counts as NaT here
to_datetime_dayfirst(c) ==
    IF c.k = "DMY" /\ ValidDate(c.d, c.m, c.y)
    THEN [ok |-> TRUE, day |-> c.d, month |-> c.m, year |-> c.y]
    ELSE [ok |-> FALSE, day |-> 0, month |-> 0, year |-> 0]

is_cross_year_week(start_year, end_year) == end_year > start_year

\* line 390 without the month test
WrongYearDecember_any_month(cur, end_year) == cur.year = end_year

\* line 390 comparing with nothing but the month
WrongYearDecember_any_year(cur, end_year) == cur.month = 12

\* line 390: only December dates that carry the end year
WrongYearDecember(cur, end_year) == cur.month = 12 /\ cur.year = end_year

\* the date written back with the year it already had
corrected_date_str_same_year(cur, start_year) == DMYp(cur.day, cur.month, cur.year)

\* corrected_date.strftime('%d %B %Y'): %d writes the day with two digits
corrected_date_str(cur, start_year) == DMYp(cur.day, cur.month, start_year)

\* an iteration that moves every December date of a cross-year week one year
\* back, whatever year it carries
CorrectRow_previous_year(row, cols) ==
    LET df0        == Frame(cols, <<0>>, <<row>>)
        date_str   == StrStrip(row[ColPos(df0, "Date")])
        week_range == StrStrip(row[ColPos(df0, "WeekRange")])
        start_year == start_year_of(week_range)
        end_year   == end_year_of(week_range)
        cur        == to_datetime_dayfirst(date_str)
        fix        == /\ HasTwoParts(week_range)
                      /\ start_year # 0 /\ end_year # 0
                      /\ is_cross_year_week(start_year, end_year)
                      /\ cur.ok /\ cur.month = 12
    IN  [fix  |-> fix,
         date |-> IF fix THEN DMYp(cur.day, cur.month, cur.year - 1)
                  ELSE row[ColPos(df0, "Date")],
         year |-> start_year,
         example_ok |-> ~isna(row[ColPos(df0, "Event")])]

\* what one iteration of the loop does to the row: whether Date is rewritten,
\* to what, under which year the example is filed, whether the example is
\* built without an exception (row.get('Event')[:50] fails on a NaN)
CorrectRow(row, cols) ==
    LET df0        == Frame(cols, <<0>>, <<row>>)
        date_str   == StrStrip(row[ColPos(df0, "Date")])
        week_range == StrStrip(row[ColPos(df0, "WeekRange")])
        start_year == start_year_of(week_range)
        end_year   == end_year_of(week_range)
        cur        == to_datetime_dayfirst(date_str)
        fix        == /\ week_range.k # "empty"
                      /\ HasTwoParts(week_range)
                      /\ start_year # 0 /\ end_year # 0
                      /\ is_cross_year_week(start_year, end_year)
                      /\ cur.ok
                      /\ WrongYearDecember(cur, end_year)
    IN  [fix  |-> fix,
         date |-> IF fix THEN corrected_date_str(cur, start_year) ELSE row[ColPos(df0, "Date")],
         year |-> start_year,
         example_ok |-> ~isna(row[ColPos(df0, "Event")])]

ExampleLimit == 5

\* the loop of fix_december_week_overlap; log = the examples kept, per year,
\* as the positions of the rows
RECURSIVE CorrLoop(_, _, _)
CorrLoop(df, log, pos) ==
    IF pos > Len(df.rows) THEN [df |-> df, log |-> log]
    ELSE LET r == CorrectRow(df.rows[pos], df.cols)
             kept == IF r.year \in DOMAIN log THEN log[r.year] ELSE <<>>
             log2 == IF r.fix /\ Len(kept) < ExampleLimit /\ r.example_ok
                     THEN [y \in DOMAIN log \cup {r.year} |->
                              IF y = r.year THEN Append(kept, pos) ELSE log[y]]
                     ELSE IF r.fix /\ r.year \notin DOMAIN log
                     THEN [y \in DOMAIN log \cup {r.year} |->
                              IF y = r.year THEN <<>> ELSE log[y]]
                     ELSE log
         IN  CorrLoop(IF r.fix THEN SetCell(df, pos, ColPos(df, "Date"), r.date) ELSE df,
                      log2, pos + 1)

EmptyLog == [y \in {} |-> <<>>]

fix_december_week_overlap(df) == CorrLoop(df, EmptyLog, 1)

\* -------------------------------------------------------------- pd.read_csv
\* the names pandas gives to the columns of a header: an empty name becomes
\* "Unnamed: <position>"
Unnamed == <<"Unnamed: 0", "Unnamed: 1", "Unnamed: 2", "Unnamed: 3", "Unnamed: 4",
             "Unnamed: 5", "Unnamed: 6", "Unnamed: 7", "Unnamed: 8", "Unnamed: 9",
             "Unnamed: 10", "Unnamed: 11">>

OtherNames == <<"Col1", "Col2", "Col3", "Col4", "Col5", "Col6", "Col7", "Col8",
                "Col9", "Col10", "Extra">>

ColumnName(c, pos) ==
    IF c.k = "name" /\ c.d \in 1..expected_cols THEN EXPECTED_COLUMNS[c.d]
    ELSE IF c.k = "name" /\ c.d > expected_cols THEN OtherNames[Min2(c.d - expected_cols, Len(OtherNames))]
    ELSE Unnamed[pos]

NonBlank(lines) == SelectSeq(lines, LAMBDA l : ~IsBlank(l))

PadRow(fields, n) == fields \o [i \in 1..(n - Len(fields)) |-> NaN]

\* the first data line has more fields than the header: pandas would take the
\* leading fields as the row labels.  Such files are outside the modelled
\* inputs (the loading actions do not choose them).
HasImplicitIndex(lines) ==
    LET nb == NonBlank(lines)
    IN  Len(nb) >= 2 /\ Len(csv_fields(nb[2])) > Len(csv_fields(nb[1]))

\* ParserError "Expected n fields, saw m": a data line after the first with
\* more fields than the table is wide
TooManyFields(nb) ==
    \E k \in 3..Len(nb) :
        Len(csv_fields(nb[k])) > Max2(Len(csv_fields(nb[1])), Len(csv_fields(nb[2])))

NoFrame == Frame(<<>>, <<>>, <<>>)

read_csv(lines) ==
    LET nb     == NonBlank(lines)
        header == csv_fields(nb[1])
    IN  IF nb = <<>> THEN [ok |-> FALSE, df |-> NoFrame]
        ELSE IF TooManyFields(nb) THEN [ok |-> FALSE, df |-> NoFrame]
        ELSE [ok |-> TRUE,
              df |-> Frame([i \in 1..Len(header) |-> ColumnName(header[i], i)],
                           RangeIndex(Len(nb) - 1),
                           [k \in 1..(Len(nb) - 1) |->
                               SubSeq(PadRow(csv_fields(nb[k + 1]), Len(header)), 1, Len(header))])]

\* fix_csv_structure of a file [readable, lines]: open() raises on a file that
\* cannot be read; the corrected lines are parsed, and the original lines when
\* that parse raises
fix_csv_structure(file) ==
    IF ~file.readable THEN [ok |-> FALSE, df |-> NoFrame]
    ELSE IF Len(file.lines) < 2 THEN read_csv(file.lines)
    ELSE IF read_csv(fixed_lines(file.lines)).ok THEN read_csv(fixed_lines(file.lines))
    ELSE read_csv(file.lines)

\* ------------------------------------------------------------ main: alignment
\* df[name] = '': a new column of empty strings, or an existing one overwritten
AddColumn(df, name) ==
    IF HasCol(df, name)
    THEN [df EXCEPT !.rows = [k \in 1..Len(df.rows) |->
                                 [df.rows[k] EXCEPT ![ColPos(df, name)] = Empty]]]
    ELSE [df EXCEPT !.cols = Append(df.cols, name),
                    !.rows = [k \in 1..Len(df.rows) |-> Append(df.rows[k], Empty)]]

\* for i in range(len(df.columns), len(EXPECTED_COLUMNS)): df[EXPECTED_COLUMNS[i]] = ''
RECURSIVE AddMissingColumns(_, _)
AddMissingColumns(df, i) ==
    IF i > expected_cols THEN df
    ELSE AddMissingColumns(AddColumn(df, EXPECTED_COLUMNS[i]), i + 1)

\* lines 459-463 renaming whatever the number of columns
align_columns_always(df) ==
    LET padded == IF Len(df.cols) < expected_cols
                  THEN AddMissingColumns(df, Len(df.cols) + 1) ELSE df
    IN  IF Len(padded.cols) > expected_cols THEN [ok |-> FALSE, df |-> NoFrame]
        ELSE [ok |-> TRUE,
              df |-> [padded EXCEPT !.cols = SubSeq(EXPECTED_COLUMNS, 1, Len(padded.cols))]]

\* lines 459-463 (and 490-494): assigning 10 names to more than 10 columns
\* raises ValueError
align_columns(df) ==
    IF Len(df.cols) = expected_cols THEN [ok |-> TRUE, df |-> df]
    ELSE align_columns_always(df)

\* lines 455-469 (and 486-500): structure, columns, row repair;
\* optimize_dataframe changes the dtypes of the columns, not their values
load_batch(file) ==
    LET a == fix_csv_structure(file)
        b == align_columns(a.df)
    IN  IF ~a.ok THEN a
        ELSE IF ~b.ok THEN b
        ELSE detect_and_fix_broken_rows(b.df)

\* the passes of load_batch, in the order of lines 455-469 (and 486-500)
load_batch_passes == <<"normalize", "align", "repair">>

\* ---------------------------------------------------------------- main: merge
\* a mask that marks nothing
duplicated_none(rows) == [i \in 1..Len(rows) |-> FALSE]

\* a mask that marks a row when an earlier row has its first four fields
\* (Date, Time, Currency, Event)
duplicated_by_key(rows) ==
    [i \in 1..Len(rows) |->
        \E j \in 1..(i - 1) : SubSeq(rows[j], 1, 4) = SubSeq(rows[i], 1, 4)]

\* Series.duplicated(keep='first') over rows
duplicated(rows) == [i \in 1..Len(rows) |-> \E j \in 1..(i - 1) : rows[j] = rows[i]]

RECURSIVE KeepUnmarked(_, _, _)
KeepUnmarked(seq, mask, i) ==
    IF i > Len(seq) THEN <<>>
    ELSE (IF mask[i] THEN <<>> ELSE <<seq[i]>>) \o KeepUnmarked(seq, mask, i + 1)

\* merged_df.drop_duplicates(inplace=True): the labels of the kept rows stay
drop_duplicates(df) ==
    Frame(df.cols, KeepUnmarked(df.idx, duplicated(df.rows), 1),
          KeepUnmarked(df.rows, duplicated(df.rows), 1))

\* batch_df.reindex(columns=merged_df.columns, fill_value='')
reindex(batch, cols) ==
    Frame(cols, batch.idx,
          [k \in 1..Len(batch.rows) |->
              [i \in 1..Len(cols) |->
                  IF HasCol(batch, cols[i]) THEN batch.rows[k][ColPos(batch, cols[i])]
                  ELSE Empty]])

\* combined[~combined.duplicated(keep='first')].iloc[len(merged_df):]
new_rows(merged, batch) ==
    LET combined == merged.rows \o batch.rows
        kept     == KeepUnmarked(combined, duplicated(combined), 1)
    IN  SubSeq(kept, Len(merged.rows) + 1, Len(kept))

\* the new rows put in front of the Dataset
merge_batch_prepending(merged, batch) ==
    Frame(merged.cols,
          RangeIndex(Len(merged.rows) + Len(new_rows(merged, batch))),
          new_rows(merged, batch) \o merged.rows)

\* lines 506-517
merge_batch(merged, batch) ==
    IF Len(new_rows(merged, batch)) > 0
    THEN Frame(merged.cols,
               RangeIndex(Len(merged.rows) + Len(new_rows(merged, batch))),
               merged.rows \o new_rows(merged, batch))
    ELSE merged

\* ------------------------------------------------------- main: batch discovery
\* a monthly file is monthly_batches_root / "<Month> <YYYY> Batch" / "<f>.csv";
\* names are sequences of character codes
MonthNameCodes(m) ==
    IF m = 1 THEN <<74, 97, 110, 117, 97, 114, 121>>
    ELSE IF m = 2 THEN <<70, 101, 98, 114, 117, 97, 114, 121>>
    ELSE IF m = 3 THEN <<77, 97, 114, 99, 104>>
    ELSE IF m = 4 THEN <<65, 112, 114, 105, 108>>
    ELSE IF m = 5 THEN <<77, 97, 121>>
    ELSE IF m = 6 THEN <<74, 117, 110, 101>>
    ELSE IF m = 7 THEN <<74, 117, 108, 121>>
    ELSE IF m = 8 THEN <<65, 117, 103, 117, 115, 116>>
    ELSE IF m = 9 THEN <<83, 101, 112, 116, 101, 109, 98, 101, 114>>
    ELSE IF m = 10 THEN <<79, 99, 116, 111, 98, 101, 114>>
    ELSE IF m = 11 THEN <<78, 111, 118, 101, 109, 98, 101, 114>>
    ELSE <<68, 101, 99, 101, 109, 98, 101, 114>>

DigitCodes(y) ==
    <<48 + ((y \div 1000) % 10), 48 + ((y \div 100) % 10), 48 + ((y \div 10) % 10), 48 + (y % 10)>>

FolderNameCodes(p) ==
    MonthNameCodes(p.m) \o <<32>> \o DigitCodes(p.y) \o <<32, 66, 97, 116, 99, 104>>

FileNameCodes(p) == <<48 + p.f, 46, 99, 115, 118>>

\* str.__lt__
RECURSIVE LexLess(_, _)
LexLess(a, b) ==
    IF b = <<>> THEN FALSE
    ELSE IF a = <<>> THEN TRUE
    ELSE IF Head(a) # Head(b) THEN Head(a) < Head(b)
    ELSE LexLess(Tail(a), Tail(b))

\* Path.__lt__: the parts compared in turn
PathLess(p, q) ==
    \/ LexLess(FolderNameCodes(p), FolderNameCodes(q))
    \/ FolderNameCodes(p) = FolderNameCodes(q) /\ LexLess(FileNameCodes(p), FileNameCodes(q))

\* the paths by year and month of their folder
PathChronoLess(p, q) ==
    \/ p.y < q.y
    \/ p.y = q.y /\ p.m < q.m
    \/ p.y = q.y /\ p.m = q.m /\ LexLess(FileNameCodes(p), FileNameCodes(q))

\* sorted() by year and month instead of by name
RECURSIVE sorted_chronologically(_)
sorted_chronologically(S) ==
    IF S = {} THEN <<>>
    ELSE LET p == CHOOSE x \in S : \A z \in S \ {x} : PathChronoLess(x, z)
         IN  <<p>> \o sorted_chronologically(S \ {p})

\* sorted() of a set of paths
RECURSIVE sorted(_)
sorted(S) ==
    IF S = {} THEN <<>>
    ELSE LET p == CHOOSE x \in S : \A z \in S \ {x} : PathLess(x, z)
         IN  <<p>> \o sorted(S \ {p})

\* line 479: sorted([f for folder in root.glob("* Batch") for f in folder.glob("*.csv")])
monthly_csv_files(S) == sorted(S)

\* =================================================================== SpecRepair
\* The Row Repair Engine applied twice in succession to a column-aligned batch.
RepairDates ==
    {DMY(5, 1, 2021), DMY(30, 12, 2020), DMY(30, 12, 2021), DMYp(5, 1, 2021), DMY(5, 0, 2021),
     DM(5, 1), DMW(30, 12), MonthOnly(1), NaN}

RepairWeekRanges == {NaN, WR2(27, 12, 2020, 2, 1, 2021)}

\* a row with the given Date and WeekRange; sparse rows have 4 more empty fields
MakeRow(date, wr, sparse) ==
    <<date, Txt(1), Txt(2), Txt(3), Txt(4),
      IF sparse THEN NaN ELSE Txt(5), IF sparse THEN NaN ELSE Txt(6),
      IF sparse THEN NaN ELSE Txt(7), IF sparse THEN NaN ELSE Txt(8), wr>>

RepairRows == {MakeRow(d, w, s) : d \in RepairDates, w \in RepairWeekRanges, s \in BOOLEAN}

RECURSIVE SeqsUpTo(_, _)
SeqsUpTo(S, n) ==
    IF n = 0 THEN {<<>>}
    ELSE LET T == SeqsUpTo(S, n - 1)
         IN  T \cup {Append(t, x) : t \in {u \in T : Len(u) = n - 1}, x \in S}

AlignedFrame(rows) == Frame(EXPECTED_COLUMNS, RangeIndex(Len(rows)), rows)

NoPath == [m |-> 0, y |-> 0, f |-> 0, stem |-> <<>>]
NoOutput == [saved |-> FALSE, name |-> <<>>, header |-> <<>>, rows |-> <<>>]
NoSummary == [rows |-> 0, broken_dates |-> 0, missing_weekranges |-> 0]

PipeIdle ==
    /\ pc = "off" /\ abort_at = "none"
    /\ main_files = {} /\ monthly = {} /\ outdir = {}
    /\ main_csv_path = NoPath /\ queue = <<>> /\ merged_df = NoFrame
    /\ latest_monthly_csv = NoPath /\ processed = <<>>
    /\ written = NoOutput /\ summary = NoSummary
    /\ h_before = NoFrame /\ h_batch = NoFrame
    /\ h_base_rows = {} /\ h_inc_rows = {} /\ h_base_broken = FALSE
    /\ h_outdir = {}
    /\ h_passes = <<>>

CorrIdle ==
    /\ c_orig = AlignedFrame(<<>>) /\ c_df = AlignedFrame(<<>>) /\ c_first = AlignedFrame(<<>>)
    /\ c_pass = 0 /\ c_log = EmptyLog

\* a file that does not exist
NoFile == [exists |-> FALSE, lines |-> <<>>]

CollIdle ==
    /\ s_file = NoFile /\ s_before = NoFile /\ s_events = <<>> /\ s_ret = 0
    /\ s_run = "off"

LoadIdle ==
    /\ l_table = <<>> /\ l_csv = <<>> /\ l_pending = <<>> /\ l_state = "off"
    /\ l_run = "off" /\ l_before = <<>> /\ l_last = 0 /\ l_first_csv = <<>>
    /\ l_failed = FALSE

NormIdle == n_lines = <<>> /\ n_i = 0 /\ n_fixed = <<>> /\ n_state = "off"

RepairIdle ==
    /\ r_orig = AlignedFrame(<<>>) /\ r_df = AlignedFrame(<<>>) /\ r_first = AlignedFrame(<<>>)
    /\ r_pass = 0 /\ r_detected = {}

\* long batches: one row with the year-less Date "5 January" at position p,
\* rows with a year at some of the positions 1, 2, search_range and
\* search_range + 1 away from it, rows that carry no year elsewhere
AbsDiff(a, b) == IF a >= b THEN a - b ELSE b - a

NearAndFar(p) ==
    {q \in 1..LongLen : AbsDiff(q, p) \in {1, 2, search_range, search_range + 1}}

LongRows(p, yr) ==
    [q \in 1..LongLen |->
        IF q = p THEN MakeRow(DM(5, 1), WRS(4, 10, 1, 2021), FALSE)
        ELSE IF q \in DOMAIN yr /\ yr[q] # 0
        THEN MakeRow(DMY(6, 1, yr[q]), WRS(4, 10, 1, 2021), FALSE)
        ELSE MakeRow(MonthOnly(1), WRS(4, 10, 1, 2021), FALSE)]

LongBatches ==
    UNION {{LongRows(p, yr) : yr \in [NearAndFar(p) -> {0, 2020, 2021}]} :
              p \in {1, LongLen - 1, LongLen}}

InitRepair ==
    /\ CorrIdle /\ NormIdle /\ PipeIdle /\ CollIdle /\ LoadIdle
    /\ \E rows \in SeqsUpTo(RepairRows, MaxRows) \cup LongBatches :
          /\ Len(rows) >= 1
          /\ r_orig = AlignedFrame(rows)
          /\ r_df = AlignedFrame(rows)
          /\ r_first = AlignedFrame(rows)
    /\ r_pass = 0
    /\ r_detected = {}

\* one call of detect_and_fix_broken_rows
RepairPass ==
    /\ r_pass < 2
    /\ detect_and_fix_broken_rows(r_df).ok
    /\ r_detected' = broken_rows(r_df)
    /\ r_df' = detect_and_fix_broken_rows(r_df).df
    /\ r_first' = IF r_pass = 0 THEN detect_and_fix_broken_rows(r_df).df ELSE r_first
    /\ r_pass' = r_pass + 1
    /\ UNCHANGED <<r_orig, corr_vars, norm_vars, pipe_vars, coll_vars, load_vars>>

NextRepair == RepairPass

SpecRepair == InitRepair /\ [][NextRepair]_vars

DateOf(df, pos) == df.rows[pos][ColPos(df, "Date")]
WeekRangeOf(df, pos) == df.rows[pos][ColPos(df, "WeekRange")]

\* C4: the Row Repair Engine is idempotent: the batch after a second pass
\* equals the batch after the first pass (same Date and WeekRange in every row).
C4_RepairIdempotent ==
    r_pass = 2 => /\ r_df = r_first
                  /\ \A pos \in 1..Len(r_df.rows) :
                        /\ DateOf(r_df, pos) = DateOf(r_first, pos)
                        /\ WeekRangeOf(r_df, pos) = WeekRangeOf(r_first, pos)

\* a batch in which the first pass repaired a broken date and generated the
\* WeekRange of the same row, after the second pass
C4_Witness ==
    /\ r_pass = 2
    /\ \E pos \in 1..Len(r_orig.rows) :
          /\ is_broken_date(DateOf(r_orig, pos))
          /\ ~is_broken_date(DateOf(r_first, pos))
          /\ isna(WeekRangeOf(r_orig, pos))
          /\ WeekRangeOf(r_first, pos).k \in {"WRS", "WRX"}

\* C5 (as claimed): after one pass, a second pass puts no row on the
\* broken-row list.
C5_SecondPassDetectsNothing == r_pass = 2 => r_detected = {}

\* the Date of row q of the batch at the moment row pos is repaired in the
\* first pass: the rows before pos have had their fix, the others not yet
DateWhenRepaired(pos, q) ==
    StrStrip(IF q < pos THEN DateOf(r_first, q) ELSE DateOf(r_orig, q))

InWindow(pos, q) == q # pos /\ AbsDiff(q, pos) <= search_range

YearCount(pos, y) ==
    Cardinality({q \in 1..Len(r_orig.rows) :
                    /\ InWindow(pos, q)
                    /\ HasYearToken(DateWhenRepaired(pos, q))
                    /\ FirstYearToken(DateWhenRepaired(pos, q)) = y})

WindowYears(pos) ==
    {FirstYearToken(DateWhenRepaired(pos, q)) :
        q \in {x \in 1..Len(r_orig.rows) :
                  InWindow(pos, x) /\ HasYearToken(DateWhenRepaired(pos, x))}}

MostFrequentYears(pos) ==
    {y \in WindowYears(pos) : \A z \in WindowYears(pos) : YearCount(pos, z) <= YearCount(pos, y)}

\* a Date that is year-less and holds a day and a month token
RepairableDate(c) == c.k \in {"DM", "MD", "DMW", "WDM"}

\* C14: a broken Date with a day and a month token is repaired to
\* "day Month Y", Y a most frequent 4-digit year among the Dates of the rows at
\* most 20 positions away (the row itself excluded), Y = 2024 when none of
\* them carries a year.
C14_MostFrequentNearbyYear ==
    r_pass >= 1 =>
        \A pos \in 1..Len(r_orig.rows) :
            RepairableDate(DateOf(r_orig, pos)) =>
                /\ DateOf(r_first, pos).k = "DMY"
                /\ DateOf(r_first, pos).d = DateOf(r_orig, pos).d
                /\ DateOf(r_first, pos).m = DateOf(r_orig, pos).m
                /\ IF WindowYears(pos) = {} THEN DateOf(r_first, pos).y = fallback_year
                   ELSE DateOf(r_first, pos).y \in MostFrequentYears(pos)

\* a long batch whose last row was repaired with the year of the two rows one
\* and 20 positions before it, against another year 2 positions before it and
\* with the same other year 21 positions before it, outside the window
C14_Witness ==
    /\ r_pass = 1 /\ Len(r_orig.rows) = LongLen
    /\ DateOf(r_orig, LongLen) = DM(5, 1)
    /\ DateOf(r_orig, LongLen - 1) = DMY(6, 1, 2021)
    /\ DateOf(r_orig, LongLen - 2) = DMY(6, 1, 2020)
    /\ DateOf(r_orig, LongLen - search_range) = DMY(6, 1, 2021)
    /\ DateOf(r_orig, LongLen - search_range - 1) = DMY(6, 1, 2020)
    /\ DateOf(r_first, LongLen) = DMY(5, 1, 2021)

\* the position of the first row of the window of pos that carries year y
FirstSeenAt(pos, y) ==
    CHOOSE q \in 1..Len(r_orig.rows) :
        /\ InWindow(pos, q) /\ HasYearToken(DateWhenRepaired(pos, q))
        /\ FirstYearToken(DateWhenRepaired(pos, q)) = y
        /\ \A x \in 1..(q - 1) :
              ~(/\ InWindow(pos, x) /\ HasYearToken(DateWhenRepaired(pos, x))
                /\ FirstYearToken(DateWhenRepaired(pos, x)) = y)

\* C15 (as claimed): when several years are tied for most frequent in the
\* window, the repair takes the tied year met first when the window is scanned
\* from the lowest row position to the highest.
C15_TieGoesToFirstEncountered ==
    r_pass >= 1 =>
        \A pos \in 1..Len(r_orig.rows) :
            (RepairableDate(DateOf(r_orig, pos)) /\ Cardinality(MostFrequentYears(pos)) >= 2) =>
                \A y \in MostFrequentYears(pos) :
                    FirstSeenAt(pos, DateOf(r_first, pos).y) <= FirstSeenAt(pos, y)

\* the Monday on or before a date, as a number of days since the epoch
MondayOnOrBefore(n) ==
    CHOOSE s \in (n - 6)..n :
        weekday(FromOrdinal(s).d, FromOrdinal(s).m, FromOrdinal(s).y) = 0

\* the week of a date rendered "D - D Mon, YYYY" or "D Mon - D Mon, YYYY",
\* the days as plain numbers
WeekRangeAsSpecified(c) ==
    LET s == FromOrdinal(MondayOnOrBefore(Ordinal(c.d, c.m, c.y)))
        e == FromOrdinal(MondayOnOrBefore(Ordinal(c.d, c.m, c.y)) + 6)
    IN  IF s.m = e.m THEN WRS(s.d, e.d, e.m, e.y)
        ELSE WRX(s.d, s.m, e.d, e.m, e.y, FALSE, FALSE)

\* C20 (as claimed): a row with an empty WeekRange whose Date parses gets the
\* Monday-to-Sunday week of that date, rendered "D - D Mon, YYYY" within one
\* month and "D Mon - D Mon, YYYY" across two; its WeekRange stays empty when
\* the Date does not parse.
C20_WeekRangeOfTheDate ==
    r_pass >= 1 =>
        \A pos \in 1..Len(r_orig.rows) :
            isna(WeekRangeOf(r_orig, pos)) =>
                WeekRangeOf(r_first, pos) =
                    IF StrptimeParses(StrStrip(DateOf(r_first, pos)))
                    THEN WeekRangeAsSpecified(StrStrip(DateOf(r_first, pos)))
                    ELSE Empty

\* ===================================================================== SpecCorr
\* The Boundary-Year Corrector applied (twice) to a Dataset.
CorrDates ==
    {DMY(31, 12, 2021), DMY(31, 12, 2020), DMY(5, 12, 2021),
     DMY(15, 1, 2021), MonthOnly(12), NaN}

CorrWeekRanges ==
    {WR2(27, 12, 2020, 2, 1, 2021), WR2(29, 11, 2021, 5, 12, 2021),
     WRX(28, 12, 3, 1, 2021, TRUE, TRUE), WRS(6, 12, 12, 2021), NaN}

MakeEventRow(date, wr, event) ==
    <<date, Txt(1), Txt(2), event, Txt(4), Txt(5), Txt(6), Txt(7), Txt(8), wr>>

CorrRows == {MakeEventRow(d, w, e) : d \in CorrDates, w \in CorrWeekRanges, e \in {Txt(3), NaN}}

\* long Datasets: rows to correct to 2020 (with an Event, without one), a row
\* to correct to 2021, a row to leave alone
CorrLongRows ==
    {MakeEventRow(DMY(31, 12, 2021), WR2(27, 12, 2020, 2, 1, 2021), Txt(3)),
     MakeEventRow(DMY(31, 12, 2021), WR2(27, 12, 2020, 2, 1, 2021), NaN),
     MakeEventRow(DMY(31, 12, 2022), WR2(26, 12, 2021, 1, 1, 2022), Txt(3)),
     MakeEventRow(DMY(31, 12, 2020), WR2(27, 12, 2020, 2, 1, 2021), Txt(3))}

CorrLongBatches == [1..CorrLongLen -> CorrLongRows]

InitCorr ==
    /\ RepairIdle /\ NormIdle /\ PipeIdle /\ CollIdle /\ LoadIdle
    /\ \E rows \in SeqsUpTo(CorrRows, MaxRows) \cup CorrLongBatches :
          /\ Len(rows) >= 1
          /\ c_orig = AlignedFrame(rows)
          /\ c_df = AlignedFrame(rows)
          /\ c_first = AlignedFrame(rows)
    /\ c_pass = 0
    /\ c_log = EmptyLog

\* one call of fix_december_week_overlap
CorrectorPass ==
    /\ c_pass < 2
    /\ c_df' = fix_december_week_overlap(c_df).df
    /\ c_log' = fix_december_week_overlap(c_df).log
    /\ c_first' = IF c_pass = 0 THEN fix_december_week_overlap(c_df).df ELSE c_first
    /\ c_pass' = c_pass + 1
    /\ UNCHANGED <<c_orig, repair_vars, norm_vars, pipe_vars, coll_vars, load_vars>>

NextCorr == CorrectorPass

SpecCorr == InitCorr /\ [][NextCorr]_vars

\* the condition of claims C6 and C7, on the row as it was before the pass:
\* WeekRange "start - end" with a 4-digit year on both sides, end year > start
\* year, Date a December date whose year is the end year
BoundaryDefect(date, wr) ==
    /\ wr.k = "WR2" /\ wr.y2 > wr.y
    /\ date.k = "DMY" /\ date.m = 12 /\ date.d \in 1..31 /\ date.y = wr.y2

\* C6 (as claimed): such a row's Date is rewritten to the same day and month
\* with the WeekRange's start year, rendered "D Month YYYY" (day as a plain
\* number, as in "5 January 2021").
C6_RewrittenAsDMonthYYYY ==
    c_pass >= 1 =>
        \A pos \in 1..Len(c_orig.rows) :
            BoundaryDefect(DateOf(c_orig, pos), WeekRangeOf(c_orig, pos)) =>
                DateOf(c_first, pos) =
                    DMY(DateOf(c_orig, pos).d, 12, WeekRangeOf(c_orig, pos).y)

\* what the pass does write: the same day and month with the WeekRange's
\* start year, the day with two digits (a leading zero for the days 1 to 9)
RewrittenAsDDMonthYYYY ==
    c_pass >= 1 =>
        \A pos \in 1..Len(c_orig.rows) :
            BoundaryDefect(DateOf(c_orig, pos), WeekRangeOf(c_orig, pos)) =>
                DateOf(c_first, pos) =
                    DMYp(DateOf(c_orig, pos).d, 12, WeekRangeOf(c_orig, pos).y)

\* "31 December 2021" with "27 Dec, 2020 - 2 Jan, 2021" has become
\* "31 December 2020", and "5 December 2021" has become "05 December 2020"
RewrittenWitness ==
    /\ c_pass = 1
    /\ \E pos \in 1..Len(c_orig.rows) :
          /\ DateOf(c_orig, pos) = DMY(31, 12, 2021)
          /\ WeekRangeOf(c_orig, pos) = WR2(27, 12, 2020, 2, 1, 2021)
          /\ DateOf(c_df, pos) = DMY(31, 12, 2020)
    /\ \E pos \in 1..Len(c_orig.rows) :
          /\ DateOf(c_orig, pos) = DMY(5, 12, 2021)
          /\ WeekRangeOf(c_orig, pos) = WR2(27, 12, 2020, 2, 1, 2021)
          /\ DateOf(c_df, pos) = DMYp(5, 12, 2020)

\* C7: a row that does not meet the condition keeps its Date: WeekRange not
\* "start - end" with both years and end year > start year, or Date not in
\* December, or Date's year not the WeekRange's end year.
C7_OtherDatesUntouched ==
    c_pass >= 1 =>
        \A pos \in 1..Len(c_orig.rows) :
            ~BoundaryDefect(DateOf(c_orig, pos), WeekRangeOf(c_orig, pos)) =>
                DateOf(c_first, pos) = DateOf(c_orig, pos)

\* after a pass that corrected one row, another row with the same cross-year
\* WeekRange, a December date already in the start year, is as it was, and so
\* is a January date of the end year
C7_Witness ==
    /\ c_pass = 1
    /\ \E pos \in 1..Len(c_orig.rows) : DateOf(c_df, pos) # DateOf(c_orig, pos)
    /\ \E pos \in 1..Len(c_orig.rows) :
          /\ WeekRangeOf(c_orig, pos) = WR2(27, 12, 2020, 2, 1, 2021)
          /\ DateOf(c_orig, pos) \in {DMY(31, 12, 2020), DMY(15, 1, 2021)}
          /\ DateOf(c_df, pos) = DateOf(c_orig, pos)

\* the rows the correction summary of a pass lists (and counts), over all years
LoggedRows(log) == UNION {{log[y][i] : i \in 1..Len(log[y])} : y \in DOMAIN log}

\* C17 (as claimed): no Date is changed by the Boundary-Year Corrector without
\* a record in its log, which is also what its reported count counts.
C17_EveryCorrectionLogged ==
    c_pass = 1 =>
        \A pos \in 1..Len(c_orig.rows) :
            DateOf(c_df, pos) # DateOf(c_orig, pos) => pos \in LoggedRows(c_log)

\* the rows of the pass's input whose Date the pass has rewritten with the
\* start year y of their WeekRange
CorrectedTo(y) ==
    {pos \in 1..Len(c_orig.rows) :
        /\ DateOf(c_first, pos) # DateOf(c_orig, pos)
        /\ start_year_of(StrStrip(WeekRangeOf(c_orig, pos))) = y}

LoggedFor(log, y) == IF y \in DOMAIN log THEN Len(log[y]) ELSE 0

CorrectedYears == {start_year_of(StrStrip(WeekRangeOf(c_orig, pos))) : pos \in 1..Len(c_orig.rows)}

\* C22 (as claimed): after a pass, for each start year the number of logged
\* samples is min(5, number of rows corrected to that year), and every row
\* that meets the correction condition has its Date corrected.
C22_LogCappedCorrectionsNot ==
    c_pass = 1 =>
        /\ \A y \in CorrectedYears \cup DOMAIN c_log :
              LoggedFor(c_log, y) = Min2(ExampleLimit, Cardinality(CorrectedTo(y)))
        /\ \A pos \in 1..Len(c_orig.rows) :
              BoundaryDefect(DateOf(c_orig, pos), WeekRangeOf(c_orig, pos)) =>
                  DateOf(c_first, pos) =
                      DMYp(DateOf(c_orig, pos).d, 12, WeekRangeOf(c_orig, pos).y)

\* the count of C22 holds for every Dataset in which the corrected rows have
\* an Event
LogCappedWhenEventsPresent ==
    (c_pass = 1 /\ \A pos \in 1..Len(c_orig.rows) :
                      DateOf(c_first, pos) # DateOf(c_orig, pos) =>
                          ~isna(c_orig.rows[pos][ColPos(c_orig, "Event")])) =>
        \A y \in CorrectedYears \cup DOMAIN c_log :
            LoggedFor(c_log, y) = Min2(ExampleLimit, Cardinality(CorrectedTo(y)))

\* six rows corrected to 2020, five of them logged
LogCappedWitness ==
    /\ c_pass = 1
    /\ Cardinality(CorrectedTo(2020)) = CorrLongLen
    /\ LoggedFor(c_log, 2020) = ExampleLimit
    /\ \A pos \in 1..Len(c_orig.rows) : ~isna(c_orig.rows[pos][ColPos(c_orig, "Event")])

\* C24 (as claimed): the pass changes a Date only when it is a December date
\* inside the cross-year week of the row's WeekRange, that is on or after the
\* week's start day in December; a December date before that day keeps its
\* year even when it is the WeekRange's end year.
C24_OnlyInsideTheCrossYearWeek ==
    c_pass >= 1 =>
        \A pos \in 1..Len(c_orig.rows) :
            DateOf(c_first, pos) # DateOf(c_orig, pos) =>
                LET date == StrStrip(DateOf(c_orig, pos))
                    wr   == StrStrip(WeekRangeOf(c_orig, pos))
                IN  /\ wr.k = "WR2" /\ wr.m = 12 /\ wr.m2 = 1
                    /\ date.k = "DMY" /\ date.m = 12
                    /\ date.d >= wr.d

\* C27: a second pass of the Boundary-Year Corrector changes no Date; every
\* Date the first pass rewrote carries the start year of its WeekRange, which
\* is less than the end year.
C27_CorrectorIdempotent ==
    /\ c_pass >= 1 =>
          \A pos \in 1..Len(c_orig.rows) :
              DateOf(c_first, pos) # DateOf(c_orig, pos) =>
                  /\ DateOf(c_first, pos).y = start_year_of(WeekRangeOf(c_orig, pos))
                  /\ DateOf(c_first, pos).y < end_year_of(WeekRangeOf(c_orig, pos))
    /\ c_pass = 2 =>
          \A pos \in 1..Len(c_orig.rows) : DateOf(c_df, pos) = DateOf(c_first, pos)

\* two passes over a Dataset in which the first pass rewrote "5 December 2021"
\* to "05 December 2020", and the second left it so
C27_Witness ==
    /\ c_pass = 2
    /\ \E pos \in 1..Len(c_orig.rows) :
          /\ DateOf(c_orig, pos) = DMY(5, 12, 2021)
          /\ DateOf(c_first, pos) = DMYp(5, 12, 2020)
          /\ DateOf(c_df, pos) = DMYp(5, 12, 2020)

\* ================================================================== SpecDataset
\* A Dataset taken through the Row Repair Engine and then through the
\* Boundary-Year Corrector, as main() does at lines 469 and 524.
InitDataset == InitRepair

\* line 524 on the repaired Dataset
CorrectRepaired ==
    /\ r_pass >= 1 /\ c_pass = 0
    /\ c_orig' = r_df
    /\ c_df' = fix_december_week_overlap(r_df).df
    /\ c_first' = fix_december_week_overlap(r_df).df
    /\ c_log' = fix_december_week_overlap(r_df).log
    /\ c_pass' = 1
    /\ UNCHANGED <<repair_vars, norm_vars, pipe_vars, coll_vars, load_vars>>

NextDataset ==
    \/ RepairPass
    \/ CorrectRepaired

SpecDataset == InitDataset /\ [][NextDataset]_vars

\* the same columns, labels and rows in the same order, every field but Date
\* and WeekRange as it was
SameButDateAndWeekRange(before, after) ==
    /\ after.cols = before.cols
    /\ after.idx = before.idx
    /\ Len(after.rows) = Len(before.rows)
    /\ \A pos \in 1..Len(before.rows) :
          /\ Len(after.rows[pos]) = Len(before.rows[pos])
          /\ \A i \in 1..Len(before.rows[pos]) :
                before.cols[i] \notin {"Date", "WeekRange"} =>
                    after.rows[pos][i] = before.rows[pos][i]

\* C18: the Row Repair Engine and the Boundary-Year Corrector add, delete and
\* reorder no row and change no field other than Date and WeekRange; a row
\* whose date cannot be repaired stays in the Dataset.
C18_OnlyDateAndWeekRangeChange ==
    /\ r_pass >= 1 => SameButDateAndWeekRange(r_orig, r_df)
    /\ c_pass >= 1 => SameButDateAndWeekRange(c_orig, c_df)

\* a Dataset in which the engine has repaired the Date and generated the
\* WeekRange of a row stripped of half its other fields, and the corrector has
\* then rewritten the Date of another row
C18_Witness ==
    /\ r_pass >= 1 /\ c_pass = 1
    /\ \E pos \in 1..Len(r_orig.rows) :
          /\ DateOf(r_df, pos) # DateOf(r_orig, pos)
          /\ WeekRangeOf(r_df, pos) # WeekRangeOf(r_orig, pos)
          /\ nan_count(r_df.rows[pos]) > NanLimit
    /\ \E pos \in 1..Len(c_orig.rows) : DateOf(c_df, pos) # DateOf(c_orig, pos)

\* the rows that came without a WeekRange and got one from the Row Repair Engine
GeneratedWeekRange(pos) ==
    /\ MissingWeekRangeIssue(r_orig, pos)
    /\ ~MissingWeekRangeIssue(c_orig, pos)

\* C26: a row whose WeekRange was generated by the Row Repair Engine is not
\* eligible for the Boundary-Year Corrector: the generated range has no year
\* on its start side, and the corrector leaves the row's Date as it is, also
\* when the generated week runs from December into January.
C26_GeneratedWeekRangeNotEligible ==
    c_pass = 1 =>
        \A pos \in 1..Len(c_orig.rows) :
            GeneratedWeekRange(pos) =>
                /\ HasTwoParts(StrStrip(WeekRangeOf(c_orig, pos)))
                /\ start_year_of(StrStrip(WeekRangeOf(c_orig, pos))) = 0
                /\ ~CorrectRow(c_orig.rows[pos], c_orig.cols).fix
                /\ DateOf(c_df, pos) = DateOf(c_orig, pos)

\* a Dataset with a generated WeekRange from December into January
\* ("27 Dec - 02 Jan, 2022") whose Date the corrector left alone, next to a
\* row with a scraped WeekRange whose Date it rewrote
C26_Witness ==
    /\ c_pass = 1
    /\ \E pos \in 1..Len(c_orig.rows) :
          /\ GeneratedWeekRange(pos)
          /\ WeekRangeOf(c_orig, pos).k = "WRX"
          /\ WeekRangeOf(c_orig, pos).m = 12 /\ WeekRangeOf(c_orig, pos).m2 = 1
          /\ DateOf(c_df, pos) = DateOf(c_orig, pos)
    /\ \E pos \in 1..Len(c_orig.rows) :
          /\ ~GeneratedWeekRange(pos)
          /\ DateOf(c_df, pos) # DateOf(c_orig, pos)

\* ===================================================================== SpecNorm
\* The Structural Normalizer, line by line, over raw files.

\* the pieces a cell is written as: a text with commas is quoted by the
\* collector's csv writer and so spans several pieces
PiecesOf(c) ==
    IF c.k \in {"WRS", "WRX", "DMW", "WDM"} THEN <<Piece(c, "o"), Piece(c, "c")>>
    ELSE IF c.k = "WR2" THEN <<Piece(c, "o"), Piece(c, "m"), Piece(c, "c")>>
    ELSE IF c.k \in {"nan", "empty"} THEN <<Plain(NaN)>>
    ELSE <<Plain(c)>>

RECURSIVE RawLine(_)
RawLine(cells) == IF cells = <<>> THEN <<>> ELSE PiecesOf(Head(cells)) \o RawLine(Tail(cells))

HeaderLine(ids) == [i \in 1..Len(ids) |-> Plain(Name(ids[i]))]

CanonicalHeader == HeaderLine(<<1, 2, 3, 4, 5, 6, 7, 8, 9, 10>>)
ShortHeader     == HeaderLine(<<1, 2, 3, 4, 5, 6, 7, 8, 9>>)
LongHeader      == HeaderLine(<<1, 2, 3, 4, 5, 6, 7, 8, 9, 10, 21>>)
OtherHeader     == HeaderLine(<<11, 12, 13, 14, 15, 16, 17, 18, 19, 20>>)

NormHeaders == {CanonicalHeader, ShortHeader, LongHeader, OtherHeader}

GoodRow == MakeRow(DMY(5, 1, 2021), WRS(4, 10, 1, 2021), FALSE)
NoWeekRangeRow == MakeRow(DMY(5, 1, 2021), NaN, FALSE)

\* a row with an unquoted comma inside its Event text: one piece more
SurplusLine(row) == RawLine(SubSeq(row, 1, 4)) \o <<Plain(Txt(0))>> \o RawLine(SubSeq(row, 5, 10))

NormDataLines ==
    {RawLine(GoodRow), RawLine(NoWeekRangeRow),
     RawLine(SubSeq(GoodRow, 1, 9)), RawLine(SubSeq(GoodRow, 1, 8)),
     RawLine(SubSeq(GoodRow, 3, 10)),
     SurplusLine(NoWeekRangeRow), SurplusLine(GoodRow), <<>>}

NormFiles ==
    {<<>>} \cup {<<h>> : h \in NormHeaders}
    \cup {<<h>> \o d : h \in NormHeaders, d \in {x \in SeqsUpTo(NormDataLines, MaxRows) : Len(x) >= 1}}

InitNorm ==
    /\ RepairIdle /\ CorrIdle /\ PipeIdle /\ CollIdle /\ LoadIdle
    /\ n_lines \in NormFiles
    /\ n_i = 0
    /\ n_fixed = <<>>
    /\ n_state = "start"

\* lines 274-275: a file of fewer than two lines is read as it is
NormTooShort ==
    /\ n_state = "start" /\ Len(n_lines) < 2
    /\ n_state' = "direct"
    /\ UNCHANGED <<n_lines, n_i, n_fixed, repair_vars, corr_vars, pipe_vars, coll_vars, load_vars>>

NormBegin ==
    /\ n_state = "start" /\ Len(n_lines) >= 2
    /\ n_state' = "loop"
    /\ UNCHANGED <<n_lines, n_i, n_fixed, repair_vars, corr_vars, pipe_vars, coll_vars, load_vars>>

NormIteration ==
    /\ n_state = "loop" /\ n_i < Len(n_lines)
    /\ n_fixed' = n_fixed \o FixLine(n_i, n_lines[n_i + 1])
    /\ n_i' = n_i + 1
    /\ UNCHANGED <<n_lines, n_state, repair_vars, corr_vars, pipe_vars, coll_vars, load_vars>>

\* lines 285-286
NormSkipBlank == NormIteration /\ IsBlank(n_lines[n_i + 1])

\* lines 292-298
NormHeader == NormIteration /\ ~IsBlank(n_lines[n_i + 1]) /\ n_i = 0

\* lines 301-306
NormPadRow ==
    /\ NormIteration
    /\ ~IsBlank(n_lines[n_i + 1]) /\ n_i > 0
    /\ estimated_cols(n_lines[n_i + 1]) < expected_cols

\* lines 308-320
NormMergeRow ==
    /\ NormIteration
    /\ ~IsBlank(n_lines[n_i + 1]) /\ n_i > 0
    /\ estimated_cols(n_lines[n_i + 1]) > expected_cols

\* lines 322-323
NormKeepRow ==
    /\ NormIteration
    /\ ~IsBlank(n_lines[n_i + 1]) /\ n_i > 0
    /\ estimated_cols(n_lines[n_i + 1]) = expected_cols

\* lines 326-328: the corrected lines are written to the temporary file
NormWrite ==
    /\ n_state = "loop" /\ n_i = Len(n_lines)
    /\ n_state' = "written"
    /\ UNCHANGED <<n_lines, n_i, n_fixed, repair_vars, corr_vars, pipe_vars, coll_vars, load_vars>>

NextNorm ==
    \/ NormTooShort
    \/ NormBegin
    \/ NormSkipBlank
    \/ NormHeader
    \/ NormPadRow
    \/ NormMergeRow
    \/ NormKeepRow
    \/ NormWrite

SpecNorm == InitNorm /\ [][NextNorm]_vars

\* C3 (as claimed): for an input of at least two lines, every line of the
\* corrected output has exactly K = 10 delimiter-separated fields; a data line
\* with more than K fields comes out with exactly K.
C3_EveryLineHasKFields ==
    (n_state = "written" /\ Len(n_lines) >= 2) =>
        \A k \in 1..Len(n_fixed) : Len(csv_fields(n_fixed[k])) = expected_cols

\* C16 (as claimed): a data line with fewer than K = 10 fields comes out as a
\* line of exactly K fields: its own fields, in their positions, then empty
\* fields.  (After an iteration, n_lines[n_i] is the line just handled and the
\* last of n_fixed is what was appended for it.)
C16_ShortLinePaddedToK ==
    (/\ n_state = "loop" /\ n_i >= 2
     /\ ~IsBlank(n_lines[n_i])
     /\ Len(csv_fields(n_lines[n_i])) < expected_cols) =>
        LET before == csv_fields(n_lines[n_i])
            after  == csv_fields(n_fixed[Len(n_fixed)])
        IN  /\ Len(after) = expected_cols
            /\ SubSeq(after, 1, Len(before)) = before
            /\ \A j \in (Len(before) + 1)..Len(after) : isna(after[j])

\* ========================================================================= Spec
\* main(): one run of the merge script.

\* ---- file names: a stem is the sequence of its parts between "_to_"; a part
\* is [id, bad]: bad when it holds one of the characters < > : " / \ | ? *
Part(id, bad) == [id |-> id, bad |-> bad]

\* the name as it is, illegal characters included
strip_illegal_nothing(stem) == stem

\* re.sub(r'[<>:"/\\|?*]', '', name)
strip_illegal(stem) == [i \in 1..Len(stem) |-> Part(stem[i].id, FALSE)]

\* lines 532-539
merged_filename(main_stem, latest) ==
    IF latest # NoPath
    THEN <<Head(latest.stem)>> \o
         (IF Len(main_stem) >= 2 THEN Tail(main_stem) ELSE <<Part(0, FALSE)>>)
    ELSE main_stem

\* DataFrame.to_csv(index=False): a NaN is written as an empty field
to_csv_rows(df) ==
    [k \in 1..Len(df.rows) |->
        [i \in 1..Len(df.rows[k]) |-> IF isna(df.rows[k][i]) THEN Empty ELSE df.rows[k][i]]]

\* lines 554-555
remaining_broken_dates(df) ==
    Cardinality({k \in 1..Len(df.rows) : is_broken_date(StrStrip(df.rows[k][ColPos(df, "Date")]))})

remaining_missing_weekranges(df) ==
    Cardinality({k \in 1..Len(df.rows) : isna(df.rows[k][ColPos(df, "WeekRange")])})
    + Cardinality({k \in 1..Len(df.rows) : df.rows[k][ColPos(df, "WeekRange")].k = "empty"})

\* ---- the inputs
RowA  == MakeEventRow(DMY(5, 1, 2021), WRS(4, 10, 1, 2021), Txt(31))
RowB  == MakeEventRow(DMY(6, 1, 2021), WRS(4, 10, 1, 2021), Txt(32))
RowC  == MakeEventRow(DM(7, 1), NaN, Txt(33))
RowD  == MakeEventRow(MonthOnly(1), NaN, Txt(34))
RowE  == MakeEventRow(DMY(31, 12, 2021), WR2(27, 12, 2020, 2, 1, 2021), Txt(35))
RowE2 == MakeEventRow(DMY(31, 12, 2020), WR2(27, 12, 2020, 2, 1, 2021), Txt(35))
RowN  == MakeEventRow(DMY(1, 2, 2021), WRS(1, 7, 2, 2021), Txt(36))
\* the event of RowA three more times: without its WeekRange, with the week
\* counted from Sunday, with another Actual
RowA2 == MakeEventRow(DMY(5, 1, 2021), NaN, Txt(31))
RowA3 == MakeEventRow(DMY(5, 1, 2021), WRS(3, 9, 1, 2021), Txt(31))
RowA4 == [RowA EXCEPT ![6] = Txt(41)]

File(header, rows) == [readable |-> TRUE, lines |-> <<header>> \o rows]
Unreadable == [readable |-> FALSE, lines |-> <<>>]

BaseData ==
    {<<RawLine(RowA), RawLine(RowB)>>, <<RawLine(RowA), RawLine(RowA)>>,
     <<RawLine(RowC), RawLine(RowA)>>, <<RawLine(RowC)>>,
     <<RawLine(RowD), RawLine(RowA)>>, <<RawLine(RowE), RawLine(RowE2)>>,
     <<RawLine(RowA), <<>>, RawLine(SubSeq(RowB, 1, 9))>>,
     <<RawLine(RowA), SurplusLine(RowB)>>, <<RawLine(RowA2), RawLine(RowA3)>>, <<>>}

BaseFiles ==
    {File(CanonicalHeader, d) : d \in BaseData}
    \cup {File(h, d) : h \in {ShortHeader, OtherHeader, LongHeader},
                       d \in {<<RawLine(RowA), RawLine(RowB)>>, <<RawLine(RowC)>>, <<>>}}
    \cup {Unreadable}

BatchData ==
    {<<RawLine(RowB), RawLine(RowN)>>, <<RawLine(RowN), RawLine(RowN)>>,
     <<RawLine(RowA)>>, <<RawLine(RowC), RawLine(RowN)>>, <<RawLine(RowD)>>,
     <<RawLine(RowE)>>, <<RawLine(RowN), SurplusLine(RowB)>>,
     <<RawLine(RowA4), RawLine(RowA2)>>, <<>>}

BatchFiles ==
    {File(CanonicalHeader, d) : d \in BatchData}
    \cup {File(h, <<RawLine(RowN)>>) : h \in {OtherHeader, LongHeader}}
    \cup {Unreadable}

MainNames == {[stem |-> <<Part(1, FALSE), Part(2, FALSE)>>]}

MonthlyPaths ==
    {[m |-> 12, y |-> 2020, f |-> 1, stem |-> <<Part(3, FALSE), Part(4, FALSE)>>],
     [m |-> 1,  y |-> 2021, f |-> 1, stem |-> <<Part(5, FALSE), Part(6, FALSE)>>],
     [m |-> 2,  y |-> 2021, f |-> 1, stem |-> <<Part(7, TRUE), Part(8, FALSE)>>]}

\* a file of the output folder: its name, and whether unlink() raises on it
\* (a file held open by another program, a read-only folder)
OutFile(name, locked) == [name |-> name, locked |-> locked]

OldOutputs == {OutFile(<<Part(9, FALSE)>>, FALSE), OutFile(<<Part(10, FALSE)>>, TRUE)}

Init ==
    /\ RepairIdle /\ CorrIdle /\ NormIdle /\ CollIdle /\ LoadIdle
    /\ pc = "start" /\ abort_at = "none"
    /\ main_files \in SUBSET MainNames
    /\ monthly \in SUBSET MonthlyPaths
    /\ outdir \in SUBSET OldOutputs
    /\ main_csv_path = NoPath /\ queue = <<>> /\ merged_df = NoFrame
    /\ latest_monthly_csv = NoPath /\ processed = <<>>
    /\ written = NoOutput /\ summary = NoSummary
    /\ h_before = NoFrame /\ h_batch = NoFrame
    /\ h_base_rows = {} /\ h_inc_rows = {} /\ h_base_broken = FALSE
    /\ h_outdir = outdir
    /\ h_passes = <<>>

others == <<repair_vars, corr_vars, norm_vars, coll_vars, load_vars>>

\* lines 38-45: every file is unlinked; an exception of unlink() is swallowed
\* and the file stays
clear_output_folder(files) == {f \in files : f.locked}

\* line 444: clear_output_folder()
ClearOutput ==
    /\ pc = "start"
    /\ outdir' = clear_output_folder(outdir)
    /\ pc' = "discover"
    /\ UNCHANGED <<abort_at, fs_vars, main_csv_path, queue, merged_df, latest_monthly_csv,
                   processed, written, summary, hist_vars, others>>

\* lines 447-450
DiscoverMain ==
    /\ pc = "discover" /\ main_files # {}
    /\ \E f \in main_files : main_csv_path' = [m |-> 0, y |-> 0, f |-> 0, stem |-> f.stem]
    /\ pc' = "load_main"
    /\ UNCHANGED <<abort_at, fs_vars, outdir, queue, merged_df, latest_monthly_csv,
                   processed, written, summary, hist_vars, others>>

\* line 449: raise FileNotFoundError
NoMainBatch ==
    /\ pc = "discover" /\ main_files = {}
    /\ pc' = "aborted" /\ abort_at' = "discovery"
    /\ UNCHANGED <<fs_vars, outdir, main_csv_path, queue, merged_df, latest_monthly_csv,
                   processed, written, summary, hist_vars, others>>

InDomain(file) == ~HasImplicitIndex(file.lines) /\ ~HasImplicitIndex(fixed_lines(file.lines))

\* a Date without a 4-digit year in the batch as parsed, before the repair
HasYearlessDate(file) ==
    LET a == fix_csv_structure(file)
        b == align_columns(a.df)
    IN  /\ a.ok /\ b.ok /\ HasCol(b.df, "Date")
        /\ \E k \in 1..Len(b.df.rows) : ~HasYearToken(DateOf(b.df, k))

\* lines 455-469: the base batch is read, aligned and repaired
LoadMain ==
    /\ pc = "load_main"
    /\ \E file \in BaseFiles :
          /\ InDomain(file)
          /\ load_batch(file).ok
          /\ merged_df' = load_batch(file).df
          /\ h_base_broken' = HasYearlessDate(file)
    /\ h_passes' = h_passes \o load_batch_passes
    /\ pc' = "dedup"
    /\ UNCHANGED <<abort_at, fs_vars, outdir, main_csv_path, queue, latest_monthly_csv,
                   processed, written, summary, h_before, h_batch, h_base_rows,
                   h_inc_rows, h_outdir, others>>

\* an exception while the base batch is loaded ends the run
LoadMainFails ==
    /\ pc = "load_main"
    /\ \E file \in BaseFiles : InDomain(file) /\ ~load_batch(file).ok
    /\ pc' = "aborted" /\ abort_at' = "base"
    /\ UNCHANGED <<fs_vars, outdir, main_csv_path, queue, merged_df, latest_monthly_csv,
                   processed, written, summary, hist_vars, others>>

\* lines 472-476
DedupMain ==
    /\ pc = "dedup"
    /\ merged_df' = drop_duplicates(merged_df)
    /\ h_base_rows' = {merged_df.rows[k] : k \in 1..Len(merged_df.rows)}
    /\ h_passes' = Append(h_passes, "dedup")
    /\ pc' = "list"
    /\ UNCHANGED <<abort_at, fs_vars, outdir, main_csv_path, queue, latest_monthly_csv,
                   processed, written, summary, h_before, h_batch, h_inc_rows,
                   h_base_broken, h_outdir, others>>

\* lines 479-480
ListMonthly ==
    /\ pc = "list"
    /\ queue' = monthly_csv_files(monthly)
    /\ latest_monthly_csv' = NoPath
    /\ pc' = "merge"
    /\ UNCHANGED <<abort_at, fs_vars, outdir, main_csv_path, merged_df, processed,
                   written, summary, hist_vars, others>>

\* lines 482-519: one iteration of the loop over the monthly batches
MergeBatch ==
    /\ pc = "merge" /\ queue # <<>>
    /\ \E file \in BatchFiles :
          /\ InDomain(file)
          /\ load_batch(file).ok
          /\ LET batch_df == reindex(load_batch(file).df, merged_df.cols)
             IN  /\ merged_df' = merge_batch(merged_df, batch_df)
                 /\ h_batch' = batch_df
                 /\ h_inc_rows' = h_inc_rows \cup
                                  {batch_df.rows[k] : k \in 1..Len(batch_df.rows)}
    /\ h_before' = merged_df
    /\ h_passes' = h_passes \o load_batch_passes \o <<"merge">>
    /\ latest_monthly_csv' = Head(queue)
    /\ processed' = Append(processed, Head(queue))
    /\ queue' = Tail(queue)
    /\ UNCHANGED <<pc, abort_at, fs_vars, outdir, main_csv_path, written, summary,
                   h_base_rows, h_base_broken, h_outdir, others>>

\* an exception in the loop body is not caught: it ends the run
MergeBatchFails ==
    /\ pc = "merge" /\ queue # <<>>
    /\ \E file \in BatchFiles : InDomain(file) /\ ~load_batch(file).ok
    /\ pc' = "aborted" /\ abort_at' = "batch"
    /\ UNCHANGED <<fs_vars, outdir, main_csv_path, queue, merged_df, latest_monthly_csv,
                   processed, written, summary, hist_vars, others>>

\* lines 522-524
DecemberFix ==
    /\ pc = "merge" /\ queue = <<>>
    /\ HasCol(merged_df, "Date") /\ HasCol(merged_df, "WeekRange")
    /\ merged_df' = fix_december_week_overlap(merged_df).df
    /\ h_passes' = Append(h_passes, "corrector")
    /\ pc' = "final"
    /\ UNCHANGED <<abort_at, fs_vars, outdir, main_csv_path, queue, latest_monthly_csv,
                   processed, written, summary, h_before, h_batch, h_base_rows,
                   h_inc_rows, h_base_broken, h_outdir, others>>

\* lines 525-526
DecemberFixSkipped ==
    /\ pc = "merge" /\ queue = <<>>
    /\ ~(HasCol(merged_df, "Date") /\ HasCol(merged_df, "WeekRange"))
    /\ pc' = "final"
    /\ UNCHANGED <<abort_at, fs_vars, outdir, main_csv_path, queue, merged_df,
                   latest_monthly_csv, processed, written, summary, hist_vars, others>>

\* line 529
FinalRepair ==
    /\ pc = "final"
    /\ detect_and_fix_broken_rows(merged_df).ok
    /\ merged_df' = detect_and_fix_broken_rows(merged_df).df
    /\ h_passes' = Append(h_passes, "repair")
    /\ pc' = "save"
    /\ UNCHANGED <<abort_at, fs_vars, outdir, main_csv_path, queue, latest_monthly_csv,
                   processed, written, summary, h_before, h_batch, h_base_rows,
                   h_inc_rows, h_base_broken, h_outdir, others>>

FinalRepairFails ==
    /\ pc = "final"
    /\ ~detect_and_fix_broken_rows(merged_df).ok
    /\ pc' = "aborted" /\ abort_at' = "final"
    /\ UNCHANGED <<fs_vars, outdir, main_csv_path, queue, merged_df, latest_monthly_csv,
                   processed, written, summary, hist_vars, others>>

\* lines 532-547
Save ==
    /\ pc = "save"
    /\ LET name == strip_illegal(merged_filename(main_csv_path.stem, latest_monthly_csv))
       IN  /\ outdir' = outdir \cup {OutFile(name, FALSE)}
           /\ written' = [saved |-> TRUE, name |-> name, header |-> merged_df.cols,
                          rows |-> to_csv_rows(merged_df)]
    /\ h_passes' = Append(h_passes, "write")
    /\ pc' = "summary"
    /\ UNCHANGED <<abort_at, fs_vars, main_csv_path, queue, merged_df, latest_monthly_csv,
                   processed, summary, h_before, h_batch, h_base_rows, h_inc_rows,
                   h_base_broken, h_outdir, others>>

\* lines 550-559
Summary ==
    /\ pc = "summary"
    /\ HasCol(merged_df, "Date") /\ HasCol(merged_df, "WeekRange")
    /\ summary' = [rows |-> Len(merged_df.rows),
                   broken_dates |-> remaining_broken_dates(merged_df),
                   missing_weekranges |-> remaining_missing_weekranges(merged_df)]
    /\ pc' = "done"
    /\ UNCHANGED <<abort_at, fs_vars, outdir, main_csv_path, queue, merged_df,
                   latest_monthly_csv, processed, written, hist_vars, others>>

\* merged_df['Date'] or merged_df['WeekRange'] raises KeyError
SummaryFails ==
    /\ pc = "summary"
    /\ ~(HasCol(merged_df, "Date") /\ HasCol(merged_df, "WeekRange"))
    /\ pc' = "aborted" /\ abort_at' = "summary"
    /\ UNCHANGED <<fs_vars, outdir, main_csv_path, queue, merged_df, latest_monthly_csv,
                   processed, written, summary, hist_vars, others>>

Next ==
    \/ ClearOutput
    \/ DiscoverMain
    \/ NoMainBatch
    \/ LoadMain
    \/ LoadMainFails
    \/ DedupMain
    \/ ListMonthly
    \/ MergeBatch
    \/ MergeBatchFails
    \/ DecemberFix
    \/ DecemberFixSkipped
    \/ FinalRepair
    \/ FinalRepairFails
    \/ Save
    \/ Summary
    \/ SummaryFails

Spec == Init /\ [][Next]_vars

January2021 == CHOOSE p \in MonthlyPaths : p.m = 1 /\ p.y = 2021
February2021 == CHOOSE p \in MonthlyPaths : p.m = 2 /\ p.y = 2021

\* the rows of a Dataset followed by the rows of a batch that equal no row
\* before them, one after the other
RECURSIVE AppendNew(_, _, _)
AppendNew(acc, rows, i) ==
    IF i > Len(rows) THEN acc
    ELSE AppendNew(IF \E j \in 1..Len(acc) : acc[j] = rows[i] THEN acc ELSE Append(acc, rows[i]),
                   rows, i + 1)

\* C1: after a merge step the Dataset is the prior Dataset followed, in the
\* batch's order, by exactly the batch rows that equal (on all 10 fields) no
\* row of the Dataset and no earlier row of the batch.
C1_MergeAppendsNewRows ==
    (pc = "merge" /\ processed # <<>>) =>
        /\ merged_df.rows = AppendNew(h_before.rows, h_batch.rows, 1)
        /\ \A k \in 1..Len(merged_df.rows) : Len(merged_df.rows[k]) = expected_cols

\* base [A, B] merged with [B, N] has given [A, B, N]
C1_Witness ==
    /\ pc = "merge"
    /\ h_before.rows = <<RowA, RowB>>
    /\ h_batch.rows = <<RowB, RowN>>
    /\ merged_df.rows = <<RowA, RowB, RowN>>

\* C2 (as claimed): a written output file has the 10 canonical column names as
\* its header, in order, and 10 fields in every row, whatever the input header.
C2_CanonicalOutput ==
    written.saved =>
        /\ written.header = EXPECTED_COLUMNS
        /\ \A k \in 1..Len(written.rows) : Len(written.rows[k]) = expected_cols

\* C8 (as claimed): the batch of "January 2021 Batch" is merged before the
\* batch of "February 2021 Batch".
C8_JanuaryBeforeFebruary ==
    \A i, j \in 1..Len(processed) :
        (processed[i] = January2021 /\ processed[j] = February2021) => i < j

\* C9 (as claimed): a run over a base batch with a year-less date and
\* incremental batches with new rows ends with no broken date, no empty
\* WeekRange, and as many rows as distinct base rows plus distinct new rows.
C9_EndToEndClean ==
    (pc = "done" /\ h_base_broken /\ h_inc_rows \ h_base_rows # {}) =>
        /\ summary.broken_dates = 0
        /\ summary.missing_weekranges = 0
        /\ summary.rows = Cardinality(h_base_rows) + Cardinality(h_inc_rows \ h_base_rows)

\* C10 (as claimed): a failure while an incremental batch is read or parsed
\* does not end the run.
C10_BatchFailureDoesNotAbort == pc = "aborted" => abort_at # "batch"

\* C11 (as claimed): once the result is written, the output folder holds the
\* result file and nothing else, whatever it held before the run.
C11_ExactlyOneOutputFile == written.saved => outdir = {OutFile(written.name, FALSE)}

\* a name part with its illegal characters removed
CleanPart(p) == Part(p.id, FALSE)

\* the file name built from the base batch's name and one monthly batch's name:
\* the monthly name up to its first "_to_", then the base name after its first
\* "_to_", illegal characters removed
NameFrom(main_stem, batch_stem) ==
    <<CleanPart(Head(batch_stem))>> \o
    (IF Len(main_stem) >= 2
     THEN [i \in 1..(Len(main_stem) - 1) |-> CleanPart(main_stem[i + 1])]
     ELSE <<Part(0, FALSE)>>)

CleanName(stem) == [i \in 1..Len(stem) |-> CleanPart(stem[i])]

\* C12 (as claimed): the output file name is built from the base batch's name
\* and the name of the first monthly batch in processing order; it is the base
\* batch's name when there was no monthly batch.
C12_NameFromEarliestBatch ==
    written.saved =>
        written.name = IF processed = <<>> THEN CleanName(main_csv_path.stem)
                       ELSE NameFrom(main_csv_path.stem, processed[1].stem)

\* C12 (amended): the output file name is built from the base batch's name and
\* the name of the last monthly batch in processing order, with the characters
\* < > : " / \ | ? * removed; it is the base batch's name when there was no
\* monthly batch.
C12_NameFromLatestBatch ==
    written.saved =>
        written.name = IF processed = <<>> THEN CleanName(main_csv_path.stem)
                       ELSE NameFrom(main_csv_path.stem, processed[Len(processed)].stem)

\* a result named after the last of two processed batches, February 2021,
\* whose name held an illegal character
C12_Witness ==
    /\ written.saved
    /\ Len(processed) = 2
    /\ processed[2] = February2021
    /\ \E i \in 1..Len(February2021.stem) : February2021.stem[i].bad
    /\ written.name = <<Part(Head(February2021.stem).id, FALSE), Part(2, FALSE)>>

\* C13: after every merge step of the monthly loop, the Dataset before the step
\* is a prefix of the Dataset after it, also when the batch brought no new row.
C13_DatasetOnlyGrows ==
    (pc = "merge" /\ processed # <<>>) =>
        /\ merged_df.cols = h_before.cols
        /\ Len(merged_df.rows) >= Len(h_before.rows)
        /\ SubSeq(merged_df.rows, 1, Len(h_before.rows)) = h_before.rows

\* the second of two merge steps brought no new row from a batch that has
\* rows, after a first step that had added rows
C13_Witness ==
    /\ pc = "merge" /\ Len(processed) = 2
    /\ h_batch.rows # <<>>
    /\ merged_df.rows = h_before.rows
    /\ Len(merged_df.rows) > Cardinality(h_base_rows)

\* C19 (as claimed): when no base batch is found the run aborts and the output
\* folder is as it was before the run.
C19_NoBaseLeavesOutputAsItWas ==
    (pc = "aborted" /\ abort_at = "discovery") => outdir = h_outdir

\* the passes of a run over n monthly batches in which the corrector ran
RECURSIVE BatchPasses(_)
BatchPasses(n) ==
    IF n = 0 THEN <<>>
    ELSE <<"normalize", "align", "repair", "merge">> \o BatchPasses(n - 1)

PassesAsSpecified(n) ==
    <<"normalize", "align", "repair", "dedup">> \o BatchPasses(n)
    \o <<"corrector", "repair", "write">>

\* C21 (as claimed): a run that writes its output has applied, in this order:
\* normalize, align, repair, dedup on the base batch; normalize, align, repair,
\* merge on each monthly batch; the Boundary-Year Corrector exactly once; the
\* row repair once more; the write.
C21_PassOrder == written.saved => h_passes = PassesAsSpecified(Len(processed))

\* the order of C21 holds in every run whose Dataset has a Date and a WeekRange
\* column when the loop over the monthly batches ends
PassOrderWithDateAndWeekRange ==
    (written.saved /\ HasCol(merged_df, "Date") /\ HasCol(merged_df, "WeekRange")) =>
        h_passes = PassesAsSpecified(Len(processed))

\* a written run over two monthly batches in which the corrector ran
PassOrderWitness ==
    /\ written.saved /\ Len(processed) = 2
    /\ h_passes = PassesAsSpecified(2)

RowsOf(df) == {df.rows[k] : k \in 1..Len(df.rows)}

\* two rows with the same first four fields (Date, Time, Currency, Event in
\* the canonical order) that are not equal on every field
SameKeyOnly(r1, r2) ==
    /\ Len(r1) >= 4 /\ Len(r2) >= 4
    /\ SubSeq(r1, 1, 4) = SubSeq(r2, 1, 4)
    /\ r1 # r2

\* C23: two rows with the same (Date, Time, Currency, Event) that differ in
\* another field are both kept, by the dedup of the base batch and by every
\* merge step.
C23_DedupByFullRowOnly ==
    /\ pc = "list" =>
          \A r1, r2 \in h_base_rows :
              SameKeyOnly(r1, r2) => {r1, r2} \subseteq RowsOf(merged_df)
    /\ (pc = "merge" /\ processed # <<>>) =>
          \A r1, r2 \in RowsOf(h_before) \cup RowsOf(h_batch) :
              SameKeyOnly(r1, r2) => {r1, r2} \subseteq RowsOf(merged_df)

\* the base batch held the event of RowA with a generated WeekRange and with
\* another WeekRange, the monthly batch brought it with another Actual: the
\* Dataset holds the three rows
C23_Witness ==
    /\ pc = "merge"
    /\ h_base_rows = {RowA, RowA3}
    /\ h_batch.rows = <<RowA4, RowA>>
    /\ merged_df.rows = <<RowA, RowA3, RowA4>>

\* C25 (as claimed): the written Dataset holds no two rows equal on all their
\* fields.
C25_NoDuplicateInOutput ==
    written.saved =>
        \A i, j \in 1..Len(written.rows) : i # j => written.rows[i] # written.rows[j]

\* the Dataset is free of duplicates when the loop over the monthly batches
\* ends, before the corrector and the final repair
NoDuplicateAfterMerges ==
    (pc = "merge" /\ queue = <<>>) =>
        \A i, j \in 1..Len(merged_df.rows) : i # j => merged_df.rows[i] # merged_df.rows[j]

\* ================================================================ SpecCollector
\* The collector's save_events
\* (News Pipeline/Dockerized Web Scrapper/docker_version_monthly_api_scrapper.py),
\* called once per run of the collector on the file of the collected month.
\* An event is a dict: a function from the field names to cells (strings).

fieldnames == <<"Date", "Time", "Currency", "Event", "Impact", "Actual", "Forecast",
                "Previous", "IsHoliday", "WeekRange">>

\* csv.reader: the fields of a line as strings, an empty field is ''
reader_fields(line) ==
    LET f == csv_fields(line)
    IN  [i \in 1..Len(f) |-> IF isna(f[i]) THEN Empty ELSE f[i]]

\* csv.DictReader row.get(name, ""): the field under the header's column of
\* that name; None (here NaN) when the row is shorter than the header, the
\* default "" when the header has no such column
row_get(header, fields, name) ==
    LET at == {i \in 1..Len(header) : ColumnName(header[i], i) = name}
    IN  IF at = {} THEN Empty
        ELSE LET i == CHOOSE j \in at : \A k \in at : k <= j
             IN  IF i <= Len(fields) THEN fields[i] ELSE NaN

\* line 577 (and 569): the key of an event
event_id(event) == <<event["Date"], event["Time"], event["Event"], event["Currency"]>>

\* lines 564-572: the keys of the rows of the file
existing_events(file) ==
    IF ~file.exists \/ file.lines = <<>> THEN {}
    ELSE LET header == reader_fields(file.lines[1])
         IN  {<<row_get(header, reader_fields(file.lines[k]), "Date"),
                row_get(header, reader_fields(file.lines[k]), "Time"),
                row_get(header, reader_fields(file.lines[k]), "Event"),
                row_get(header, reader_fields(file.lines[k]), "Currency")>> :
                 k \in 2..Len(file.lines)}

\* the events of the input whose key is neither in the file nor carried by an
\* earlier event of the input
RECURSIVE new_events_unique(_, _)
new_events_unique(events, existing) ==
    IF events = <<>> THEN <<>>
    ELSE IF event_id(Head(events)) \in existing
         THEN new_events_unique(Tail(events), existing)
         ELSE <<Head(events)>> \o
              new_events_unique(Tail(events), existing \cup {event_id(Head(events))})

\* lines 575-591: existing_events is not added to while the input is filtered
new_events(events, existing) ==
    SelectSeq(events, LAMBDA e : event_id(e) \notin existing)

\* csv.DictWriter.writerow: the values in the order of fieldnames
DictRow(event) == [i \in 1..Len(fieldnames) |-> event[fieldnames[i]]]

\* lines 556-606: the file after the call and the value returned
save_events(events, file) ==
    LET fresh == new_events(events, existing_events(file))
    IN  IF fresh = <<>> THEN [file |-> file, ret |-> 0]
        ELSE [file |-> [exists |-> TRUE,
                        lines  |-> file.lines
                                   \o (IF ~file.exists THEN <<CanonicalHeader>> ELSE <<>>)
                                   \o [i \in 1..Len(fresh) |-> RawLine(DictRow(fresh[i]))]],
              ret |-> Len(fresh)]

MakeEvent(date, time, currency, event, actual, wr) ==
    [n \in {fieldnames[i] : i \in 1..Len(fieldnames)} |->
        CASE n = "Date" -> date
          [] n = "Time" -> time
          [] n = "Currency" -> currency
          [] n = "Event" -> event
          [] n = "Actual" -> actual
          [] n = "WeekRange" -> wr
          [] OTHER -> NanStr]

\* an event; the same event with a revised Actual; a holiday under a date
\* without year ("5 January, Monday") with the default currency "nan" and no
\* WeekRange; the first event in another currency; an event without a name
CollEvents ==
    {MakeEvent(DMY(5, 1, 2021), HM(14, 30), Txt(2), Txt(31), Txt(5), WRS(4, 10, 1, 2021)),
     MakeEvent(DMY(5, 1, 2021), HM(14, 30), Txt(2), Txt(31), Txt(41), WRS(4, 10, 1, 2021)),
     MakeEvent(DMW(5, 1), AllDay, NanStr, Txt(32), NanStr, Empty),
     MakeEvent(DMY(5, 1, 2021), HM(14, 30), Txt(3), Txt(31), Txt(5), WRS(4, 10, 1, 2021)),
     MakeEvent(DMY(6, 1, 2021), HM(9, 0), Txt(2), Empty, NanStr, WRS(4, 10, 1, 2021))}

InitCollector ==
    /\ RepairIdle /\ CorrIdle /\ NormIdle /\ PipeIdle /\ LoadIdle
    /\ s_file = NoFile /\ s_before = NoFile /\ s_events = <<>> /\ s_ret = 0
    /\ s_run = "none"

\* line 896: one run of the collector saves what it collected
SaveEvents ==
    /\ s_run \in {"none", "once"}
    /\ \E events \in SeqsUpTo(CollEvents, MaxRows) :
          /\ s_events' = events
          /\ s_file' = save_events(events, s_file).file
          /\ s_ret' = save_events(events, s_file).ret
    /\ s_before' = s_file
    /\ s_run' = IF s_run = "none" THEN "once" ELSE "twice"
    /\ UNCHANGED <<repair_vars, corr_vars, norm_vars, pipe_vars, load_vars>>

NextCollector == SaveEvents

SpecCollector == InitCollector /\ [][NextCollector]_vars

\* the keys (Date, Time, Event, Currency) of the data rows of a file, read by
\* position
KeysInFile(file) ==
    {<<reader_fields(file.lines[k])[1], reader_fields(file.lines[k])[2],
       reader_fields(file.lines[k])[4], reader_fields(file.lines[k])[3]>> :
        k \in 2..Len(file.lines)}

\* the events of the last input whose key was no row of the file
NotInFile == SelectSeq(s_events, LAMBDA e : event_id(e) \notin KeysInFile(s_before))

parse_date(c) ==
    IF c.k = "DMY" /\ ValidDate(c.d, c.m, c.y)
    THEN [ok |-> TRUE, v |-> Ordinal(c.d, c.m, c.y)]
    ELSE [ok |-> FALSE, v |-> 0]

\* parse_time: a datetime.time (as minutes of the day), or None; "All Day"
\* and other texts are no time
parse_time(c) ==
    IF c.k = "HM" /\ c.d \in 0..23 /\ c.m \in 0..59
    THEN [ok |-> TRUE, v |-> c.d * 60 + c.m]
    ELSE [ok |-> FALSE, v |-> 0]

NAText == Cell("n/a", 0, 0, 0, FALSE, 0, 0, 0, FALSE)

\* clean_text_value: '', 'nan' and the like become "N/A"
clean_text_value(c) == IF isna(c) \/ c.k \in {"empty", "nanstr"} THEN NAText ELSE c

\* lines 211-214: Date and Time put together
DateTime(date, time) == date * 1440 + time

\* lines 192-215 on one row of the file: the row as it would be inserted
CleanRow(row) ==
    [dt       |-> DateTime(parse_date(row[1]).v, parse_time(row[2]).v),
     Currency |-> clean_text_value(row[3]),
     Event    |-> clean_text_value(row[4]),
     rest     |-> <<clean_text_value(row[5]), clean_text_value(row[6]),
                    clean_text_value(row[7]), clean_text_value(row[8])>>]

\* lines 199-201: the rows with a Date and a Time
HasDateAndTime(row) == parse_date(row[1]).ok /\ parse_time(row[2]).ok

cleaned(csv) ==
    LET kept == SelectSeq(csv, HasDateAndTime)
    IN  [i \in 1..Len(kept) |-> CleanRow(kept[i])]

Reverse(s) == [i \in 1..Len(s) |-> s[Len(s) + 1 - i]]

\* the rows in ascending order of dt, rows of equal dt in their given order:
\* a row's place is one more than the number of rows that go before it
SortedFrom(rows) ==
    LET place(i) == 1 + Cardinality({j \in 1..Len(rows) :
                                        \/ rows[j].dt < rows[i].dt
                                        \/ rows[j].dt = rows[i].dt /\ j < i})
    IN  [k \in 1..Len(rows) |-> rows[CHOOSE i \in 1..Len(rows) : place(i) = k]]

\* line 216: sort_values(by="DateTime") sorts with quicksort, which may put
\* rows of equal DateTime in any order: they come out in the order of the
\* file, or in the opposite order (flipped)
sort_values(rows, flipped) ==
    SortedFrom(IF flipped THEN Reverse(rows) ELSE rows)

\* lines 257-258: MAX(CONCAT(Date, ' ', Time)), NULL over an empty table; the
\* strings 'YYYY-MM-DD HH:MM:SS' compare as their moments do
last_timestamp(table) ==
    IF table = <<>> THEN [some |-> FALSE, dt |-> 0]
    ELSE [some |-> TRUE,
          dt   |-> CHOOSE d \in {table[i].dt : i \in 1..Len(table)} :
                       \A i \in 1..Len(table) : table[i].dt <= d]

\* a filter that keeps the rows of the last timestamp itself
is_new_or_equal(dt, last) == ~last.some \/ dt >= last.dt

\* lines 260-262: df[df["DateTime"] > last_dt], when there is a last timestamp
is_new(dt, last) == ~last.some \/ dt > last.dt

\* lines 283-289
data_to_insert(rows, last) == SelectSeq(rows, LAMBDA r : is_new(r.dt, last))

SameKey(a, b) == a.dt = b.dt /\ a.Currency = b.Currency /\ a.Event = b.Event

\* lines 273-281 and 299: executemany of INSERT ... ON DUPLICATE KEY UPDATE
\* over a chunk, row after row, on the unique key (Date, Time, Currency, Event):
\* a row of the table takes the values of the last row of the chunk with its
\* key; the rows of the chunk whose key is new are appended, each key once, in
\* the order of their first rows, with the values of the key's last row
executemany(table, chunk) ==
    LET last_of(row) == chunk[CHOOSE j \in 1..Len(chunk) :
                                 /\ SameKey(chunk[j], row)
                                 /\ \A k \in (j + 1)..Len(chunk) : ~SameKey(chunk[k], row)]
        firsts == {j \in 1..Len(chunk) :
                      /\ \A i \in 1..Len(table) : ~SameKey(table[i], chunk[j])
                      /\ \A k \in 1..(j - 1) : ~SameKey(chunk[k], chunk[j])}
        nth(n) == CHOOSE j \in firsts : Cardinality({k \in firsts : k <= j}) = n
    IN  [i \in 1..Len(table) |->
            IF \E j \in 1..Len(chunk) : SameKey(chunk[j], table[i])
            THEN [table[i] EXCEPT !.rest = last_of(table[i]).rest]
            ELSE table[i]]
        \o [n \in 1..Cardinality(firsts) |->
               [chunk[nth(n)] EXCEPT !.rest = last_of(chunk[nth(n)]).rest]]

\* ---- the files
LoadRow(date, time, currency, event, actual) ==
    <<date, time, currency, event, Txt(4), actual, Txt(6), Txt(7), Txt(8),
      WRS(4, 10, 1, 2021)>>

LR1 == LoadRow(DMY(5, 1, 2021), HM(14, 30), Txt(2), Txt(31), Txt(5))
LR1r == LoadRow(DMY(5, 1, 2021), HM(14, 30), Txt(2), Txt(31), Txt(41))
LR2 == LoadRow(DMY(5, 1, 2021), HM(14, 30), Txt(3), Txt(31), Empty)
LR3 == LoadRow(DMYp(6, 1, 2021), HM(9, 0), Txt(2), Txt(32), Txt(5))
LR4 == LoadRow(DMY(4, 1, 2021), AllDay, NanStr, Txt(33), NanStr)
LR5 == LoadRow(DMW(7, 1), HM(9, 0), Txt(2), Txt(34), Txt(5))

LoadHeader == [i \in 1..expected_cols |-> Name(i)]

LoadShortCsvs ==
    {<<LoadHeader, LR1>>, <<LoadHeader, LR1, LR2>>, <<LoadHeader, LR3, LR1>>,
     <<LoadHeader, LR1, LR2, LR3, LR4>>, <<LoadHeader, LR4, LR5>>,
     <<LoadHeader, LR1, LR3, LR1r>>, <<LoadHeader, LR4, LR1r, LR5>>}

\* a long file: LoadLongLen rows in the order of time, g rows to a timestamp
\* (the first timestamp has g - off rows)
LoadLongRow(i, g, off) ==
    LET j == (i - 1 + off) \div g
    IN  LoadRow(DMY(1 + (j % 28), 1 + (j \div 28), 2021), HM(14, 30), Txt(2),
                Txt(100 + i), Txt(5))

LoadLongCsv(g, off) ==
    <<LoadHeader>> \o [i \in 1..LoadLongLen |-> LoadLongRow(i, g, off)]

LoadLongCsvs == {LoadLongCsv(g, off) : g \in {1, 2, 3}, off \in {0, 1}}

LoadCsvs == LoadShortCsvs \cup LoadLongCsvs

InitLoader ==
    /\ RepairIdle /\ CorrIdle /\ NormIdle /\ PipeIdle /\ CollIdle
    /\ l_table = <<>> /\ l_csv = <<>> /\ l_pending = <<>> /\ l_state = "idle"
    /\ l_run = "none" /\ l_before = <<>> /\ l_last = [some |-> FALSE, dt |-> 0]
    /\ l_first_csv = <<>> /\ l_failed = FALSE

CanStart == l_state \in {"idle", "done", "failed"} /\ l_run \in {"none", "first"}

\* what every start of a run records
Started(csv) ==
    /\ l_csv' = csv
    /\ l_before' = l_table
    /\ l_last' = last_timestamp(l_table)
    /\ l_run' = IF l_run = "none" THEN "first" ELSE "second"
    /\ l_first_csv' = IF l_run = "none" THEN csv ELSE l_first_csv
    /\ UNCHANGED <<l_table, l_failed>>

\* lines 206-208: no row with a Date and a Time
ImportNoValidData ==
    /\ CanStart
    /\ \E csv \in LoadCsvs :
          /\ cleaned(csv) = <<>>
          /\ Started(csv)
    /\ l_pending' = <<>>
    /\ l_state' = "done"
    /\ UNCHANGED <<repair_vars, corr_vars, norm_vars, pipe_vars, coll_vars>>

\* lines 265-267: no row after the last timestamp
ImportNoNewData ==
    /\ CanStart
    /\ \E csv \in LoadCsvs :
          /\ cleaned(csv) # <<>>
          /\ data_to_insert(cleaned(csv), last_timestamp(l_table)) = <<>>
          /\ Started(csv)
    /\ l_pending' = <<>>
    /\ l_state' = "done"
    /\ UNCHANGED <<repair_vars, corr_vars, norm_vars, pipe_vars, coll_vars>>

\* lines 166-295: the file is read, cleaned, sorted and filtered
ImportBegin ==
    /\ CanStart
    /\ \E csv \in LoadCsvs, flipped \in BOOLEAN :
          LET rows == data_to_insert(sort_values(cleaned(csv), flipped),
                                     last_timestamp(l_table))
          IN  /\ rows # <<>>
              /\ l_pending' = rows
              /\ Started(csv)
    /\ l_state' = "inserting"
    /\ UNCHANGED <<repair_vars, corr_vars, norm_vars, pipe_vars, coll_vars>>

\* lines 297-300: one chunk is inserted and committed; after the last chunk
\* the run is complete (line 307)
InsertChunk ==
    /\ l_state = "inserting" /\ l_pending # <<>>
    /\ l_table' = executemany(l_table, SubSeq(l_pending, 1, Min2(chunk_size, Len(l_pending))))
    /\ l_pending' = SubSeq(l_pending, Min2(chunk_size, Len(l_pending)) + 1, Len(l_pending))
    /\ l_state' = IF Len(l_pending) <= chunk_size THEN "done" ELSE "inserting"
    /\ UNCHANGED <<l_csv, l_run, l_before, l_last, l_first_csv, l_failed>>
    /\ UNCHANGED <<repair_vars, corr_vars, norm_vars, pipe_vars, coll_vars>>

\* lines 316-325: an exception while a chunk is inserted (the connection is
\* lost, a value does not fit its column) ends the run; the chunk is not
\* committed
ChunkFails ==
    /\ l_state = "inserting" /\ l_pending # <<>>
    /\ l_state' = "failed"
    /\ l_pending' = <<>>
    /\ l_failed' = (l_failed \/ (l_run = "first" /\ l_table # l_before))
    /\ UNCHANGED <<l_table, l_csv, l_run, l_before, l_last, l_first_csv>>
    /\ UNCHANGED <<repair_vars, corr_vars, norm_vars, pipe_vars, coll_vars>>

NextLoader ==
    \/ ImportNoValidData
    \/ ImportNoNewData
    \/ ImportBegin
    \/ InsertChunk
    \/ ChunkFails

SpecLoader == InitLoader /\ [][NextLoader]_vars

\* the rows of the file with a Date and a Time, as the loader would insert them
ValidRows(csv) == {CleanRow(csv[k]) : k \in {j \in 1..Len(csv) : HasDateAndTime(csv[j])}}

\* the table rows inserted since the run began
InsertedAt == (Len(l_before) + 1)..Len(l_table)

\* C29: in a run of import_csv_data the rows are inserted in ascending DateTime
\* order, and only rows of the file whose DateTime is strictly later than the
\* latest timestamp the table held when the run began; when the table was not
\* empty and the file has no later row, nothing is inserted and no row of the
\* table is modified.
C29_OnlyLaterRowsAscending ==
    l_run \in {"first", "second"} =>
        LET valid == ValidRows(l_csv)
        IN  /\ Len(l_table) >= Len(l_before)
            /\ \A i \in InsertedAt :
                  /\ \E r \in valid : SameKey(r, l_table[i])
                  /\ \A k \in 1..Len(l_before) : l_before[k].dt < l_table[i].dt
            /\ \A i, j \in InsertedAt : i < j => l_table[i].dt <= l_table[j].dt
            /\ (/\ l_before # <<>>
                /\ \A r \in valid : \E k \in 1..Len(l_before) : r.dt <= l_before[k].dt) =>
                   l_table = l_before

\* a second run on a table that held the event of 5 January 14:30: of a file
\* with that event, another event of the same moment, a later event and a
\* holiday without time, only the later event has been inserted
C29_Witness ==
    /\ l_run = "second" /\ l_state = "done"
    /\ l_before = <<CleanRow(LR1)>>
    /\ l_csv = <<LoadHeader, LR1, LR2, LR3, LR4>>
    /\ l_table = <<CleanRow(LR1), CleanRow(LR3)>>

\* C30 (as claimed): when a run failed after it had committed a chunk and the
\* next run on the same file completes, the table holds every row of the
\* file that has a Date and a Time.
C30_RerunRecoversEveryRow ==
    (/\ l_run = "second" /\ l_state = "done"
     /\ l_failed /\ l_csv = l_first_csv) =>
        \A r \in ValidRows(l_csv) : \E i \in 1..Len(l_table) : SameKey(l_table[i], r)

\* the re-run recovers every row when no two rows of the file on either side
\* of the last committed chunk share a timestamp
RerunRecoversWithoutTies ==
    (/\ l_run = "second" /\ l_state = "done"
     /\ l_failed /\ l_csv = l_first_csv
     /\ \A r \in ValidRows(l_csv) :
           r.dt = l_last.dt => \E i \in 1..Len(l_before) : SameKey(l_before[i], r)) =>
        \A r \in ValidRows(l_csv) : \E i \in 1..Len(l_table) : SameKey(l_table[i], r)

\* a re-run after a failure that recovered every row of a long file
RerunWitness ==
    /\ l_run = "second" /\ l_state = "done" /\ l_failed /\ l_csv = l_first_csv
    /\ Len(l_before) = chunk_size
    /\ Len(l_table) = LoadLongLen

====
